---- MODULE Spec2Model ----
(***************************************************************************)
(* A model of RouteExplorer (src/src/routeExplorer.js): the crawl loop of  *)
(* explore() with its frontier queue, visited set, retry policy and logout *)
(* guard, and the aggregation of the per-page navigation extracts by       *)
(* organizeMenuHierarchy().                                                *)
(*                                                                         *)
(* Strings are sequences of atoms (short pieces of text); a URL is a       *)
(* record [origin, path, suffix] whose text is origin . path . suffix,     *)
(* where suffix is the query and/or fragment.  The browser is the          *)
(* environment: every navigation either throws or succeeds, and a          *)
(* successful page serves a list of absolute links.                        *)
(***************************************************************************)
EXTENDS Integers, Sequences, FiniteSets, TLC

\* ------------------------------------------------------------- bounds

\* The largest maxPages / maxRetries option the model configures.
MaxPagesOpt == 3
MaxRetriesOpt == 2
\* The largest number of failed navigations in one crawl.
MaxFailures == 3
\* The largest number of explore() calls on one instance.
MaxCalls == 2

\* ---------------------------------------------------- program constants

DefaultMaxPages == 20
DefaultMaxRetries == 2

\* ------------------------------------------------------------ strings

Range(s) == { s[i] : i \in 1..Len(s) }

Count(s, x) == Cardinality({ i \in 1..Len(s) : s[i] = x })

\* String.prototype.toLowerCase, atom by atom.
LowerAtom(a) ==
  CASE a = "LogOut" -> "logout"
    [] a = "Exit" -> "exit"
    [] a = "Home" -> "home"
    [] a = "Dashboard" -> "dashboard"
    [] a = "DASHBOARD" -> "dashboard"
    [] a = "Reports" -> "reports"
    [] a = "Settings" -> "settings"
    [] a = "Daily" -> "daily"
    [] a = "Standalone_Pages" -> "standalone_pages"
    [] a = "Standalone Pages" -> "standalone pages"
    [] OTHER -> a

toLowerCase(s) == [ i \in 1..Len(s) |-> LowerAtom(s[i]) ]

\* String.prototype.trim: leading and trailing blanks removed.
RECURSIVE trimStart(_)
trimStart(s) ==
  IF s # <<>> /\ Head(s) = " " THEN trimStart(Tail(s)) ELSE s

RECURSIVE trimEnd(_)
trimEnd(s) ==
  IF s # <<>> /\ s[Len(s)] = " " THEN trimEnd(SubSeq(s, 1, Len(s) - 1)) ELSE s

trim(s) == trimEnd(trimStart(s))

\* String.prototype.includes: pat occurs in s as a contiguous run.
includes(s, pat) ==
  \E i \in 0..(Len(s) - Len(pat)) :
    \A j \in 1..Len(pat) : s[i + j] = pat[j]

\* A file that does not exist.
NoFile == [exists |-> FALSE]

\* --------------------------------------------------------------- URLs

AppOrigin == "https://app.test"
ExtOrigin == "https://ext.test"
\* In place of an origin, in a text that is not a URL.
NoOrigin == ""

Url(o, p, s) == [origin |-> o, path |-> p, suffix |-> s]

\* The text of a URL.
Href(u) == <<u.origin>> \o u.path \o u.suffix

PathA == <<"/", "a">>
PathB == <<"/", "b">>
PathC == <<"/", "c">>
PathD == <<"/", "d">>
PathLogout == <<"/", "account", "/", "logout">>
PathLogOut == <<"/", "account", "/", "LogOut">>
PathExit == <<"/", "Exit">>
\* The path of  https://app.test//ext.test/x : a link written with a doubled
\* slash after the origin.
PathSlashSlash == <<"/", "/", "ext.test", "/", "x">>
PathX == <<"/", "x">>
\* The path of  https://app.test//
PathSlashOnly == <<"/", "/">>
QueryQ == <<"?", "q">>
QueryNextExit == <<"?", "next=", "/", "exit">>
QueryThenQuit == <<"?", "then=", "quit">>

UrlA == Url(AppOrigin, PathA, <<>>)
UrlAq == Url(AppOrigin, PathA, QueryQ)
UrlB == Url(AppOrigin, PathB, <<>>)
UrlBq == Url(AppOrigin, PathB, QueryQ)
UrlBexit == Url(AppOrigin, PathB, QueryNextExit)
UrlBquit == Url(AppOrigin, PathB, QueryThenQuit)
UrlC == Url(AppOrigin, PathC, <<>>)
UrlD == Url(AppOrigin, PathD, <<>>)
UrlLogout == Url(AppOrigin, PathLogout, <<>>)
UrlExit == Url(AppOrigin, PathExit, <<>>)
UrlExt == Url(ExtOrigin, PathA, <<>>)
UrlUnparsable == Url(NoOrigin, <<"not a url">>, <<>>)
UrlSlashSlash == Url(AppOrigin, PathSlashSlash, <<>>)
UrlSlashOnly == Url(AppOrigin, PathSlashOnly, <<>>)
UrlExtX == Url(ExtOrigin, PathX, <<>>)

\* The start URLs the model configures.
StartUrls == { UrlA, UrlAq, UrlExit }

\* The lists of absolute links (a.href) a page may serve.
LinkLists ==
  { <<UrlB, UrlC>>,
    <<UrlD, UrlLogout>>,
    <<UrlB, UrlBq, UrlBexit, UrlBquit, UrlExit, UrlExt, UrlUnparsable>> }

\* The links of a page one of whose links is written with a doubled slash.
SlashLinkLists == { <<UrlC, UrlSlashSlash>>, <<UrlB, UrlSlashOnly, UrlD>> }

LinkUrls == UNION { Range(l) : l \in LinkLists \cup SlashLinkLists }

\* Whether new URL(url) succeeds: the text of UrlUnparsable has no scheme.
Parses(u) == u.origin # NoOrigin

\* new URL(url).origin, of a URL that parses.
OriginOf(u) == u.origin

\* new URL(path, origin) throws a TypeError on a scheme-relative reference
\* with an empty host, as "//" is.
Resolvable(p) == p # PathSlashOnly

\* The origin of the host written in a URL reference.
HostOrigin(h) == IF h = "ext.test" THEN ExtOrigin ELSE AppOrigin

\* new URL(path, origin).toString(): a reference that begins with two
\* slashes is scheme-relative, its first segment is the host and the
\* origin passed gives only the scheme; any other path is taken on the
\* origin passed.
Resolve(p, o) ==
  IF Len(p) >= 3 /\ p[1] = "/" /\ p[2] = "/"
  THEN Url(HostOrigin(p[3]),
           IF Len(p) > 3 THEN SubSeq(p, 4, Len(p)) ELSE <<"/">>, <<>>)
  ELSE Url(o, p, <<>>)

\* RouteExplorer.normalize: new URL(url).pathname; the path of a URL
\* written without one is "/".
normalize(u) == IF u.path = <<>> THEN <<"/">> ELSE u.path

AllUrls ==
  StartUrls \cup LinkUrls \cup { Resolve(normalize(u), AppOrigin) : u \in LinkUrls }

\* ------------------------------------------------------- configuration

\* JavaScript's  v || d  on numbers: 0 is falsy.
OrDefault(v, d) == IF v = 0 THEN d ELSE v

\* this.baseUrl: the authentication URL, here on another origin than the
\* start URLs.
baseUrl == Url(ExtOrigin, <<"/", "login">>, <<>>)

\* isInternal comparing with the origin of baseUrl.
isInternalToBase(u, explorationDomain) ==
  Parses(u) /\ OriginOf(u) = OriginOf(baseUrl)

\* RouteExplorer.isInternal: false when new URL(url) throws.
isInternal(u, explorationDomain) ==
  Parses(u) /\ OriginOf(u) = explorationDomain

\* logoutPatterns with the bare words exit, quit and disconnect.
logoutPatternsNoSlash ==
  { <<"logout">>, <<"sign-out">>, <<"signout">>, <<"sign_out">>,
    <<"exit">>, <<"quit">>, <<"disconnect">>,
    <<"end-session">>, <<"endsession">>, <<"terminate">> }

\* The patterns of shouldSkipRoute ('logout' is listed twice in the code).
logoutPatterns ==
  { <<"logout">>, <<"sign-out">>, <<"signout">>, <<"sign_out">>,
    <<"/", "exit">>, <<"/", "quit">>, <<"/", "disconnect">>,
    <<"end-session">>, <<"endsession">>, <<"terminate">> }

\* RouteExplorer.shouldSkipRoute
shouldSkipRoute(u) ==
  LET lowercaseUrl == toLowerCase(Href(u))
  IN  \E pattern \in logoutPatterns : includes(lowercaseUrl, pattern)

\* ------------------------------------------------- navigation extracts

\* The item of a main menu or of a sub-menu, and the item of a sidebar.
Item(t, h) == [text |-> t, href |-> h]
SideItem(t, h, subs) == [text |-> t, href |-> h, subItems |-> subs]

\* What page.evaluate returns: the items of all mainMenus and of all
\* sidebarMenus, each list in document order.
Nav(main, side) == [mainItems |-> main, sidebarItems |-> side]

PathDashboard == <<"/", "dashboard">>
PathDashboardSlash == <<"/", "dashboard", "/">>

\* The menus the pages of a site render, by path, in three layouts.
NavOf(layout, p) ==
  CASE layout = 1 /\ p = PathA ->
         Nav(<<Item(<<"Home">>, PathA), Item(<<"Dashboard">>, PathDashboard)>>, <<>>)
    [] layout = 1 /\ p = PathB ->
         Nav(<<Item(<<"Dashboard">>, PathDashboardSlash)>>,
             <<SideItem(<<"Reports">>, PathC, <<Item(<<"Daily">>, PathD)>>)>>)
    [] layout = 1 /\ p = PathC ->
         Nav(<<Item(<<"DASHBOARD">>, PathDashboard)>>,
             <<SideItem(<<"Settings">>, PathC, <<Item(<<"Daily">>, PathB)>>),
               SideItem(<<"reports">>, PathD, <<Item(<<"daily">>, PathA)>>)>>)
    [] layout = 2 /\ p = PathA ->
         Nav(<<Item(<<"Standalone_Pages">>, PathB), Item(<<"Home">>, PathA)>>, <<>>)
    [] layout = 2 /\ p = PathB ->
         Nav(<<>>, <<SideItem(<<"Home">>, PathA, <<>>)>>)
    [] OTHER -> Nav(<<>>, <<>>)

\* The pages on which page.evaluate of the extraction throws.
ExtractionThrows(layout, p) ==
  \/ layout = 1 /\ p = PathD
  \/ layout = 2 /\ p = PathC
  \/ layout = 3 /\ p = PathB

Layouts == 1..3

\* ------------------------------------------- JavaScript Set and Map

\* SetAdd pushing as an array does, the value present or not.
ArrayPush(s, x) == Append(s, x)

\* Set.prototype.add on a set kept in insertion order.
SetAdd(s, x) == IF x \in Range(s) THEN s ELSE Append(s, x)

RECURSIVE SetFrom(_)
\* new Set(array), in insertion order.
SetFrom(a) ==
  IF a = <<>> THEN <<>>
  ELSE SetAdd(SetFrom(SubSeq(a, 1, Len(a) - 1)), a[Len(a)])

\* A Map is the sequence of its [key, value] entries in insertion order.
MapHas(m, k) == \E i \in 1..Len(m) : m[i].key = k
MapIndex(m, k) == CHOOSE i \in 1..Len(m) : m[i].key = k
MapGet(m, k) == m[MapIndex(m, k)].value
\* Map.prototype.set: a present key keeps its place and takes the value.
MapSet(m, k, v) ==
  IF MapHas(m, k)
  THEN [m EXCEPT ![MapIndex(m, k)] = [key |-> k, value |-> v]]
  ELSE Append(m, [key |-> k, value |-> v])

\* ------------------------------------------- organizeMenuHierarchy

menuKeyOf(text) == trim(toLowerCase(text))

NewGroup(item) ==
  [menuName |-> item.text, menuType |-> "main", routes |-> <<>>,
   subMenus |-> <<>>, pages |-> <<>>, isNavigationMenu |-> TRUE]

\* menuGroups with the group of the item's key created when absent.
EnsureGroup(menuGroups, item) ==
  LET menuKey == menuKeyOf(item.text)
  IN  IF ~MapHas(menuGroups, menuKey)
      THEN MapSet(menuGroups, menuKey, NewGroup(item))
      ELSE menuGroups

\* One item of a main menu seen on the page of `route`.
AddMainItem(st, item, route) ==
  LET menuKey == menuKeyOf(item.text)
      groups == EnsureGroup(st.menuGroups, item)
      menuGroup == MapGet(groups, menuKey)
      updated == [menuGroup EXCEPT !.routes = SetAdd(@, item.href),
                                   !.pages = SetAdd(@, route)]
  IN  [menuGroups |-> MapSet(groups, menuKey, updated),
       allMenuItems |-> st.allMenuItems \cup {item.href}]

RECURSIVE AddSubItems(_, _, _, _)
\* The subItems of a sidebar item folded into its group's subMenus.
AddSubItems(subMenus, all, subItems, parent) ==
  IF subItems = <<>> THEN [subMenus |-> subMenus, allMenuItems |-> all]
  ELSE LET subItem == Head(subItems)
           subKey == menuKeyOf(subItem.text)
           withKey == IF ~MapHas(subMenus, subKey)
                      THEN MapSet(subMenus, subKey,
                                  [subMenuName |-> subItem.text,
                                   routes |-> <<>>, parent |-> parent])
                      ELSE subMenus
           sub == MapGet(withKey, subKey)
       IN  AddSubItems(
             MapSet(withKey, subKey, [sub EXCEPT !.routes = SetAdd(@, subItem.href)]),
             all \cup {subItem.href}, Tail(subItems), parent)

\* AddSidebarItem starting the subMenus of the item's group afresh.
AddSidebarItemFreshSubs(st, item, route) ==
  LET menuKey == menuKeyOf(item.text)
      groups == EnsureGroup(st.menuGroups, item)
      menuGroup == MapGet(groups, menuKey)
      subs == AddSubItems(<<>>, st.allMenuItems, item.subItems, item.text)
      updated == [menuGroup EXCEPT !.routes = SetAdd(@, item.href),
                                   !.pages = SetAdd(@, route),
                                   !.subMenus = subs.subMenus]
  IN  [menuGroups |-> MapSet(groups, menuKey, updated),
       allMenuItems |-> subs.allMenuItems]

\* One top-level item of a sidebar seen on the page of `route`: its own
\* href is not added to allMenuItems, only those of its subItems are.
AddSidebarItem(st, item, route) ==
  LET menuKey == menuKeyOf(item.text)
      groups == EnsureGroup(st.menuGroups, item)
      menuGroup == MapGet(groups, menuKey)
      subs == AddSubItems(menuGroup.subMenus, st.allMenuItems,
                          item.subItems, item.text)
      updated == [menuGroup EXCEPT !.routes = SetAdd(@, item.href),
                                   !.pages = SetAdd(@, route),
                                   !.subMenus = subs.subMenus]
  IN  [menuGroups |-> MapSet(groups, menuKey, updated),
       allMenuItems |-> subs.allMenuItems]

RECURSIVE FoldMain(_, _, _)
FoldMain(st, items, route) ==
  IF items = <<>> THEN st
  ELSE FoldMain(AddMainItem(st, Head(items), route), Tail(items), route)

RECURSIVE FoldSidebar(_, _, _)
FoldSidebar(st, items, route) ==
  IF items = <<>> THEN st
  ELSE FoldSidebar(AddSidebarItem(st, Head(items), route), Tail(items), route)

RECURSIVE FoldPages(_, _)
\* navigationStructure.forEach: the main menus, then the sidebars, of
\* every stored page in insertion order.
FoldPages(st, navStructure) ==
  IF navStructure = <<>> THEN st
  ELSE LET entry == Head(navStructure)
           afterMain == FoldMain(st, entry.value.mainItems, entry.key)
       IN  FoldPages(FoldSidebar(afterMain, entry.value.sidebarItems, entry.key),
                     Tail(navStructure))

StandaloneKey == <<"standalone_pages">>

\* StandaloneRoutes finding none.
NoStandaloneRoutes(allMenuItems, discovered) == <<>>

StandaloneRoutes(allMenuItems, discovered) ==
  SelectSeq(discovered, LAMBDA route : route \notin allMenuItems)

\* menuGroups with the standalone group set when there are such routes.
WithStandalone(menuGroups, allMenuItems, discovered) ==
  LET standaloneRoutes == StandaloneRoutes(allMenuItems, discovered)
  IN  IF Len(standaloneRoutes) > 0
      THEN MapSet(menuGroups, StandaloneKey,
                  [menuName |-> <<"Standalone Pages">>, menuType |-> "standalone",
                   routes |-> SetFrom(standaloneRoutes), subMenus |-> <<>>,
                   pages |-> <<>>, isNavigationMenu |-> FALSE])
      ELSE menuGroups

\* Array.from(menuGroups.values()).map(...)
Materialize(menuGroups) ==
  [ i \in 1..Len(menuGroups) |->
      LET group == menuGroups[i].value
      IN  [menuName |-> group.menuName,
           menuType |-> group.menuType,
           routes |-> group.routes,
           subMenus |-> [ j \in 1..Len(group.subMenus) |->
                            LET sub == group.subMenus[j].value
                            IN  [subMenuName |-> sub.subMenuName,
                                 routes |-> sub.routes,
                                 parent |-> sub.parent] ],
           routeCount |-> Len(group.routes),
           isNavigationMenu |-> group.isNavigationMenu] ]

organizeMenuHierarchy(navStructure, discovered) ==
  LET folded == FoldPages([menuGroups |-> <<>>, allMenuItems |-> {}], navStructure)
  IN  Materialize(WithStandalone(folded.menuGroups, folded.allMenuItems, discovered))

\* ------------------------------------------------------------- state

VARIABLES
  \* the options given to the constructor
  startUrl, optMaxPages, optMaxRetries,
  \* the site (environment): which menus its pages render
  layout,
  \* the fields of the RouteExplorer instance
  maxPages, maxRetries,
  visited, queue, routes, failedRoutes, skippedLogoutRoutes,
  retryAttempts, navigationStructure, menuHierarchy,
  \* explore(): where it is, the browser, and the report it returns
  pc, browser, output,
  \* history: page.goto calls per URL, every queue.push in order, the
  \* successful visits with the links served, the number of failed
  \* navigations, the last step of the loop, and the number of calls of
  \* organizeMenuHierarchy
  attempts, enqLog, served, fails, last, aggregations

VARIABLES
  \* RouteAnalyzer: the files of the cache directory, output/routes.json,
  \* output/route-analysis.json, and what the last analyzeRoutes call did
  cacheDir, routesFile, analysisFile, returned, llmCalls, calls,
  \* generateCrawlData: the position of its loops and its local variables
  crawlPc, targets, skippedLogoutSet, processedUrls, navigations, crawlSummary

config == <<startUrl, optMaxPages, optMaxRetries, layout, maxPages, maxRetries>>
fields == <<visited, queue, routes, failedRoutes, skippedLogoutRoutes,
            retryAttempts, navigationStructure, menuHierarchy>>
history == <<attempts, enqLog, served, fails, last, aggregations>>
analyzer == <<cacheDir, routesFile, analysisFile, returned, llmCalls, calls>>
crawler == <<crawlPc, targets, skippedLogoutSet, processedUrls, navigations,
             crawlSummary>>
\* The later stages of the pipeline, which explore() does not touch.
pipeline == <<analyzer, crawler>>
vars == <<config, fields, pc, browser, output, history, pipeline>>

\* this.explorationDomain
explorationDomain == OriginOf(startUrl)

\* The state after  new RouteExplorer(options), the options maxPages and
\* maxRetries being drawn from the given sets.
Constructed(pagesOptions, retriesOptions) ==
  /\ startUrl \in StartUrls
  /\ optMaxPages \in pagesOptions
  /\ optMaxRetries \in retriesOptions
  /\ layout \in Layouts
  /\ maxPages = OrDefault(optMaxPages, DefaultMaxPages)
  /\ maxRetries = OrDefault(optMaxRetries, DefaultMaxRetries)
  /\ visited = {}
  /\ queue = <<>>
  /\ routes = <<>>
  /\ failedRoutes = <<>>
  /\ skippedLogoutRoutes = <<>>
  /\ retryAttempts = [u \in AllUrls |-> 0]
  /\ navigationStructure = <<>>
  /\ menuHierarchy = <<>>
  /\ pc = "init"
  /\ browser = "none"
  /\ output = <<>>
  /\ attempts = [u \in AllUrls |-> 0]
  /\ enqLog = <<>>
  /\ served = <<>>
  /\ fails = 0
  /\ last = [op |-> "none", url |-> startUrl]
  /\ aggregations = 0

\* analyzeRoutes has not been called and output/route-analysis.json does
\* not exist.
AnalyzerIdle ==
  /\ analysisFile = NoFile
  /\ returned = [outcome |-> "none", llm |-> FALSE, enableCache |-> FALSE]
  /\ llmCalls = 0
  /\ calls = 0

\* generateCrawlData is not running.
CrawlerIdle ==
  /\ crawlPc = [at |-> "idle", next |-> 1, menus |-> 0]
  /\ targets = <<>>
  /\ skippedLogoutSet = {}
  /\ processedUrls = {}
  /\ navigations = <<>>
  /\ crawlSummary = NoFile

\* No file of the later stages exists and none of them has run.
PipelineIdle ==
  /\ cacheDir = <<>>
  /\ routesFile = NoFile
  /\ AnalyzerIdle
  /\ CrawlerIdle

\* A new RouteExplorer in a working directory where no later stage of
\* the pipeline has run.
InitWith(pagesOptions, retriesOptions) ==
  /\ Constructed(pagesOptions, retriesOptions)
  /\ PipelineIdle

\* The state after  new RouteExplorer(options)  with options that section
\* 4.6 of the specification calls valid: maxPages >= 1 and maxRetries >= 0.
Init == InitWith(1..MaxPagesOpt, 0..MaxRetriesOpt)

\* The same with the negative options the constructor also accepts
\* (maxPages = 0 is falsy and behaves as the absent option: DefaultMaxPages).
AnyConfigInit == InitWith((-1..MaxPagesOpt) \ {0}, -1..MaxRetriesOpt)

\* ------------------------------------------------------------ explore

\* LoopCond with the budget tested one page too late.
LoopCondOffByOne == Len(queue) > 0 /\ Len(routes) <= maxPages

\* The condition of the while loop.
LoopCond == Len(queue) > 0 /\ Len(routes) < maxPages

\* shift taking the last entry (queue.pop()).
popLast(q) == [url |-> q[Len(q)], rest |-> SubSeq(q, 1, Len(q) - 1)]

\* queue.shift(): the URL taken and the queue left.
shift(q) == [url |-> Head(q), rest |-> Tail(q)]

\* NotYetVisited with the visited test dropped.
AlwaysPush(full, vis) == TRUE

\* The test before queue.push(full) in the link loop.
NotYetVisited(full, vis) == full \notin vis

\* IsLogoutLink with the guard dropped.
NeverLogoutLink(link) == FALSE

\* The logout test of the link loop.
IsLogoutLink(link) == shouldSkipRoute(link)

RECURSIVE ProcessLinks(_, _, _, _)
\* for (const link of links): the queue and skippedLogoutRoutes after it,
\* and whether new URL(normalized, explorationDomain) threw on a link, which
\* ends the loop there.
ProcessLinks(links, q, skipped, vis) ==
  IF links = <<>> THEN [queue |-> q, skipped |-> skipped, threw |-> FALSE]
  ELSE LET link == Head(links)
           normalized == normalize(link)
           full == Resolve(normalized, explorationDomain)
       IN  IF ~isInternal(link, explorationDomain)
             THEN ProcessLinks(Tail(links), q, skipped, vis)
           ELSE IF IsLogoutLink(link)
             THEN ProcessLinks(Tail(links), q, Append(skipped, link), vis)
           ELSE IF ~Resolvable(normalized)
             THEN [queue |-> q, skipped |-> skipped, threw |-> TRUE]
           ELSE IF NotYetVisited(full, vis)
             THEN ProcessLinks(Tail(links), Append(q, full), skipped, vis)
           ELSE ProcessLinks(Tail(links), q, skipped, vis)

\* VisitedAfterFailure deleting the URL, as the retry branch does.
VisitedDeleted(vis, url) == vis \ {url}

\* visited after the last retry of a URL has failed: the URL stays in.
VisitedAfterFailure(vis, url) == vis \cup {url}

\* The entries pushed on a queue that grew from `before` to `after`.
Pushed(before, after) == SubSeq(after, Len(before) + 1, Len(after))

\* chromium.launch, newContext, newPage, and the seeding of the queue.
Launch ==
  /\ pc = "init"
  /\ browser' = "open"
  /\ queue' = Append(queue, startUrl)
  /\ enqLog' = Append(enqLog, startUrl)
  /\ pc' = "crawling"
  /\ UNCHANGED <<pipeline, config, visited, routes, failedRoutes, skippedLogoutRoutes,
                 retryAttempts, navigationStructure, menuHierarchy, output,
                 attempts, served, fails, last, aggregations>>

\* chromium.launch rejects: explore() rejects and no browser exists.
LaunchThrows ==
  /\ pc = "init"
  /\ pc' = "error"
  /\ UNCHANGED <<pipeline, config, fields, browser, output, history>>

\* browser.newContext or context.newPage rejects after chromium.launch has
\* resolved: explore() rejects at that await, and no handler closes the
\* browser.
SessionSetupThrows ==
  /\ pc = "init"
  /\ browser' = "open"
  /\ pc' = "error"
  /\ UNCHANGED <<pipeline, config, fields, output, history>>

\* An iteration that takes an already visited URL: continue.
SkipVisited ==
  /\ pc = "crawling"
  /\ LoopCond
  /\ shift(queue).url \in visited
  /\ queue' = shift(queue).rest
  /\ last' = [op |-> "skip", url |-> shift(queue).url]
  /\ UNCHANGED <<pipeline, config, visited, routes, failedRoutes, skippedLogoutRoutes,
                 retryAttempts, navigationStructure, menuHierarchy, pc, browser,
                 output, attempts, enqLog, served, fails, aggregations>>

\* StoreExtract storing an empty extract when page.evaluate throws.
StoreEmptyOnThrow(navStructure, path, navigation, ok) ==
  MapSet(navStructure, path, IF ok THEN navigation ELSE Nav(<<>>, <<>>))

\* extractNavigationStructure: the extract is stored under the page's path,
\* unless page.evaluate throws; the catch stores nothing and returns null.
StoreExtract(navStructure, path, navigation, ok) ==
  IF ok THEN MapSet(navStructure, path, navigation) ELSE navStructure

\* An iteration whose page.goto and page.$$eval succeed: the page serves
\* `links`, and extractNavigationStructure stores the page's menus unless
\* its page.evaluate throws.
VisitPage(links) ==
  LET url == shift(queue).url
      rest == shift(queue).rest
      navOk == ~ExtractionThrows(layout, normalize(url))
      vis == visited \cup {url}
      after == ProcessLinks(links, rest, skippedLogoutRoutes, vis)
  IN  /\ pc = "crawling"
      /\ LoopCond
      /\ url \notin visited
      /\ browser = "open"
      /\ ~after.threw
      /\ visited' = vis
      /\ routes' = Append(routes, normalize(url))
      /\ navigationStructure' =
           StoreExtract(navigationStructure, normalize(url),
                        NavOf(layout, normalize(url)), navOk)
      /\ queue' = after.queue
      /\ skippedLogoutRoutes' = after.skipped
      /\ attempts' = [attempts EXCEPT ![url] = @ + 1]
      /\ enqLog' = enqLog \o Pushed(rest, after.queue)
      /\ served' = Append(served, [url |-> url, links |-> links, navOk |-> navOk])
      /\ last' = [op |-> "visit", url |-> url]
      /\ UNCHANGED <<pipeline, config, failedRoutes, retryAttempts, menuHierarchy, pc,
                     browser, output, fails, aggregations>>

\* An iteration whose page.goto and page.$$eval succeed and whose link loop
\* throws at new URL(normalized, explorationDomain): the route is pushed,
\* the extract stored and the links before the throwing one processed; the
\* catch of the iteration then handles the error as it does a failed
\* navigation, with a retry of the page or with a FailedRoute.
VisitPageThrows(links) ==
  LET url == shift(queue).url
      rest == shift(queue).rest
      navOk == ~ExtractionThrows(layout, normalize(url))
      vis == visited \cup {url}
      after == ProcessLinks(links, rest, skippedLogoutRoutes, vis)
      currentAttempts == retryAttempts[url]
      retry == currentAttempts < maxRetries
  IN  /\ pc = "crawling"
      /\ LoopCond
      /\ url \notin visited
      /\ browser = "open"
      /\ after.threw
      /\ routes' = Append(routes, normalize(url))
      /\ navigationStructure' =
           StoreExtract(navigationStructure, normalize(url),
                        NavOf(layout, normalize(url)), navOk)
      /\ skippedLogoutRoutes' = after.skipped
      /\ retryAttempts' =
           IF retry THEN [retryAttempts EXCEPT ![url] = currentAttempts + 1]
           ELSE retryAttempts
      /\ queue' = IF retry THEN Append(after.queue, url) ELSE after.queue
      /\ visited' = IF retry THEN vis \ {url} ELSE vis
      /\ failedRoutes' =
           IF retry THEN failedRoutes
           ELSE Append(failedRoutes,
                  [url |-> url, normalizedPath |-> normalize(url),
                   retryAttempts |-> currentAttempts + 1])
      /\ attempts' = [attempts EXCEPT ![url] = @ + 1]
      /\ enqLog' = enqLog \o Pushed(rest, queue')
      /\ served' = Append(served, [url |-> url, links |-> links, navOk |-> navOk])
      /\ last' = [op |-> IF retry THEN "retry" ELSE "fail", url |-> url]
      /\ UNCHANGED <<pipeline, config, menuHierarchy, pc, browser, output, fails,
                     aggregations>>

\* CountRetry losing the count of the retry.
ForgetRetry(counts, url, currentAttempts) == counts

\* this.retryAttempts.set(url, currentAttempts + 1)
CountRetry(counts, url, currentAttempts) ==
  [counts EXCEPT ![url] = currentAttempts + 1]

\* An iteration whose navigation throws with retries left: the URL is
\* pushed again and taken out of visited.
RetryNavigation ==
  LET url == shift(queue).url
      rest == shift(queue).rest
      currentAttempts == retryAttempts[url]
  IN  /\ pc = "crawling"
      /\ LoopCond
      /\ url \notin visited
      /\ fails < MaxFailures \/ browser = "lost"
      /\ currentAttempts < maxRetries
      /\ retryAttempts' = CountRetry(retryAttempts, url, currentAttempts)
      /\ queue' = Append(rest, url)
      /\ visited' = (visited \cup {url}) \ {url}
      /\ attempts' = [attempts EXCEPT ![url] = @ + 1]
      /\ enqLog' = Append(enqLog, url)
      /\ fails' = fails + 1
      /\ last' = [op |-> "retry", url |-> url]
      /\ UNCHANGED <<pipeline, config, routes, failedRoutes, skippedLogoutRoutes,
                     navigationStructure, menuHierarchy, pc, browser, output,
                     served, aggregations>>

\* RecordFailure rethrowing the navigation error out of explore().
RecordFailureAborts ==
  LET url == shift(queue).url
      rest == shift(queue).rest
      currentAttempts == retryAttempts[url]
  IN  /\ pc = "crawling"
      /\ LoopCond
      /\ url \notin visited
      /\ fails < MaxFailures \/ browser = "lost"
      /\ ~(currentAttempts < maxRetries)
      /\ failedRoutes' = Append(failedRoutes,
           [url |-> url, normalizedPath |-> normalize(url),
            retryAttempts |-> currentAttempts + 1])
      /\ queue' = rest
      /\ visited' = VisitedAfterFailure(visited, url)
      /\ attempts' = [attempts EXCEPT ![url] = @ + 1]
      /\ fails' = fails + 1
      /\ last' = [op |-> "fail", url |-> url]
      /\ pc' = "error"
      /\ UNCHANGED <<pipeline, config, routes, skippedLogoutRoutes, retryAttempts,
                     navigationStructure, menuHierarchy, browser, output,
                     enqLog, served, aggregations>>

\* An iteration whose navigation throws with no retry left: a FailedRoute.
RecordFailure ==
  LET url == shift(queue).url
      rest == shift(queue).rest
      currentAttempts == retryAttempts[url]
  IN  /\ pc = "crawling"
      /\ LoopCond
      /\ url \notin visited
      /\ fails < MaxFailures \/ browser = "lost"
      /\ ~(currentAttempts < maxRetries)
      /\ failedRoutes' = Append(failedRoutes,
           [url |-> url, normalizedPath |-> normalize(url),
            retryAttempts |-> currentAttempts + 1])
      /\ queue' = rest
      /\ visited' = VisitedAfterFailure(visited, url)
      /\ attempts' = [attempts EXCEPT ![url] = @ + 1]
      /\ fails' = fails + 1
      /\ last' = [op |-> "fail", url |-> url]
      /\ UNCHANGED <<pipeline, config, routes, skippedLogoutRoutes, retryAttempts,
                     navigationStructure, menuHierarchy, pc, browser, output,
                     enqLog, served, aggregations>>

\* The loop ends: browser.close(), which releases an open browser and
\* finds nothing to release when the browser is already gone.
ExitLoop ==
  /\ pc = "crawling"
  /\ ~LoopCond
  /\ browser' = IF browser = "open" THEN "closed" ELSE browser
  /\ pc' = "aggregating"
  /\ UNCHANGED <<pipeline, config, fields, output, history>>

\* UniqueSkipped without the removal of duplicates.
AllSkipped(skipped) == skipped

\* [...new Set(this.skippedLogoutRoutes)]
UniqueSkipped(skipped) == SetFrom(skipped)

\* The report explore() returns.
Report(hierarchy) ==
  [discoveredRoutes |-> routes,
   failedRoutes |-> failedRoutes,
   skippedLogoutRoutes |-> UniqueSkipped(skippedLogoutRoutes),
   navigationStructure |-> hierarchy,
   summary |-> [successful |-> Len(routes),
                failed |-> Len(failedRoutes),
                skippedLogout |-> Len(skippedLogoutRoutes),
                total |-> Len(routes) + Len(failedRoutes)]]

\* Aggregate run after every visited page as well, the crawl going on.
AggregateIncremental ==
  /\ \/ pc = "aggregating"
     \/ pc = "crawling" /\ last.op = "visit" /\ aggregations < Len(served)
  /\ menuHierarchy' = organizeMenuHierarchy(navigationStructure, routes)
  /\ aggregations' = aggregations + 1
  /\ output' = IF pc = "aggregating"
               THEN Append(output, Report(menuHierarchy')) ELSE output
  /\ pc' = IF pc = "aggregating" THEN "done" ELSE pc
  /\ UNCHANGED <<pipeline, config, visited, queue, routes, failedRoutes,
                 skippedLogoutRoutes, retryAttempts, navigationStructure,
                 browser, attempts, enqLog, served, fails, last>>

\* organizeMenuHierarchy() and the assembly of the output.
Aggregate ==
  /\ pc = "aggregating"
  /\ menuHierarchy' = organizeMenuHierarchy(navigationStructure, routes)
  /\ aggregations' = aggregations + 1
  /\ output' = Append(output, Report(menuHierarchy'))
  /\ pc' = "done"
  /\ UNCHANGED <<pipeline, config, visited, queue, routes, failedRoutes,
                 skippedLogoutRoutes, retryAttempts, navigationStructure,
                 browser, attempts, enqLog, served, fails, last>>

Next ==
  \/ Launch
  \/ LaunchThrows
  \/ SessionSetupThrows
  \/ SkipVisited
  \/ \E links \in LinkLists : VisitPage(links)
  \/ RetryNavigation
  \/ RecordFailure
  \/ ExitLoop
  \/ Aggregate

\* The browser process dies or the connection to it drops during the crawl:
\* from then on every page.goto rejects.
SessionLost ==
  /\ pc = "crawling"
  /\ browser = "open"
  /\ browser' = "lost"
  /\ UNCHANGED <<pipeline, config, fields, pc, output, history>>

\* explore() called again on an instance whose explore() has returned: the
\* method has no guard, launches a browser again and pushes the start URL
\* on what the first call left in this.queue.
ExploreAgain ==
  /\ pc = "done"
  /\ aggregations < MaxCalls
  /\ browser' = "open"
  /\ queue' = Append(queue, startUrl)
  /\ enqLog' = Append(enqLog, startUrl)
  /\ pc' = "crawling"
  /\ UNCHANGED <<pipeline, config, visited, routes, failedRoutes, skippedLogoutRoutes,
                 retryAttempts, navigationStructure, menuHierarchy, output,
                 attempts, served, fails, last, aggregations>>

Spec == Init /\ [][Next]_vars

\* explore() on a site some of whose pages serve SlashLinkLists.
SlashSpec ==
  Init /\ [][ \/ Next
              \/ \E links \in SlashLinkLists : VisitPage(links)
              \/ \E links \in SlashLinkLists : VisitPageThrows(links) ]_vars

\* The links of a page that links back to the start page by its plain URL.
BackLinkLists == { <<UrlA, UrlB>> }

\* explore() on a site one of whose pages links back to the start page.
BackLinkSpec ==
  Init /\ [][Next \/ \E links \in BackLinkLists : VisitPage(links)]_vars

\* An instance whose explore() may be called again after it has returned.
ReentrySpec == Init /\ [][Next \/ ExploreAgain]_vars

\* explore() in an environment where the browser session can be lost.
SessionSpec == Init /\ [][Next \/ SessionLost]_vars

\* explore() on an explorer constructed with any options.
AnyConfigSpec == AnyConfigInit /\ [][Next]_vars

\* ------------------------------------- one iteration, await by await

\* MayDequeue letting the loop go on while a navigation or a back-off is
\* pending.
MayDequeueInFlight(position) == position \in {"crawling", "navigating", "backoff"}

\* The loop takes its next URL at the top of the while statement only: every
\* await of the body is over by then.
MayDequeue(position) == position = "crawling"

\* The top of an iteration up to the await of page.goto: the URL is shifted
\* off the queue and added to visited, and the navigation is pending.
Dequeue ==
  LET url == shift(queue).url
  IN  /\ MayDequeue(pc)
      /\ LoopCond
      /\ url \notin visited
      /\ browser = "open"
      /\ queue' = shift(queue).rest
      /\ visited' = visited \cup {url}
      /\ pc' = "navigating"
      /\ last' = [op |-> "goto", url |-> url]
      /\ UNCHANGED <<pipeline, config, routes, failedRoutes, skippedLogoutRoutes,
                     retryAttempts, navigationStructure, menuHierarchy, browser,
                     output, attempts, enqLog, served, fails, aggregations>>

\* page.goto and page.$$eval resolve: the route is pushed, the extract
\* stored and the links enqueued, and the loop is at its top again.
PageLoaded(links) ==
  LET url == last.url
      navOk == ~ExtractionThrows(layout, normalize(url))
      after == ProcessLinks(links, queue, skippedLogoutRoutes, visited)
  IN  /\ pc = "navigating"
      /\ ~after.threw
      /\ routes' = Append(routes, normalize(url))
      /\ navigationStructure' =
           StoreExtract(navigationStructure, normalize(url),
                        NavOf(layout, normalize(url)), navOk)
      /\ queue' = after.queue
      /\ skippedLogoutRoutes' = after.skipped
      /\ attempts' = [attempts EXCEPT ![url] = @ + 1]
      /\ enqLog' = enqLog \o Pushed(queue, after.queue)
      /\ served' = Append(served, [url |-> url, links |-> links, navOk |-> navOk])
      /\ last' = [op |-> "visit", url |-> url]
      /\ pc' = "crawling"
      /\ UNCHANGED <<pipeline, config, visited, failedRoutes, retryAttempts, menuHierarchy,
                     browser, output, fails, aggregations>>

\* page.goto rejects: with retries left the attempt is counted and the
\* three-second delay awaited; with none left the FailedRoute is recorded
\* and the loop is at its top again.
GotoThrows ==
  LET url == last.url
      currentAttempts == retryAttempts[url]
  IN  /\ pc = "navigating"
      /\ fails < MaxFailures
      /\ attempts' = [attempts EXCEPT ![url] = @ + 1]
      /\ fails' = fails + 1
      /\ IF currentAttempts < maxRetries
         THEN /\ retryAttempts' = CountRetry(retryAttempts, url, currentAttempts)
              /\ pc' = "backoff"
              /\ last' = [op |-> "delay", url |-> url]
              /\ UNCHANGED <<failedRoutes, visited>>
         ELSE /\ failedRoutes' = Append(failedRoutes,
                   [url |-> url, normalizedPath |-> normalize(url),
                    retryAttempts |-> currentAttempts + 1])
              /\ visited' = VisitedAfterFailure(visited, url)
              /\ pc' = "crawling"
              /\ last' = [op |-> "fail", url |-> url]
              /\ UNCHANGED retryAttempts
      /\ UNCHANGED <<pipeline, config, queue, routes, skippedLogoutRoutes,
                     navigationStructure, menuHierarchy, browser, output,
                     enqLog, served, aggregations>>

\* The delay of the retry branch is over: the URL is pushed again and taken
\* out of visited.
BackoffDone ==
  LET url == last.url
  IN  /\ pc = "backoff"
      /\ queue' = Append(queue, url)
      /\ visited' = visited \ {url}
      /\ enqLog' = Append(enqLog, url)
      /\ last' = [op |-> "retry", url |-> url]
      /\ pc' = "crawling"
      /\ UNCHANGED <<pipeline, config, routes, failedRoutes, skippedLogoutRoutes,
                     retryAttempts, navigationStructure, menuHierarchy, browser,
                     output, attempts, served, fails, aggregations>>

\* The links the pages serve in the await-by-await crawl.
LaneLinkLists == { <<UrlB, UrlC>>, <<UrlD, UrlLogout>> }

LaneNext ==
  \/ Launch
  \/ SkipVisited
  \/ Dequeue
  \/ \E links \in LaneLinkLists : PageLoaded(links)
  \/ GotoThrows
  \/ BackoffDone
  \/ ExitLoop
  \/ Aggregate

\* explore() with every await of an iteration a step of its own.
LaneSpec == Init /\ [][LaneNext]_vars

\* ------------------------------------------------------ RouteAnalyzer

MaxAnalyses == 3

\* The value of a property that an object does not have.
Undefined == "undefined"
\* In a JSON text, a property that was left out.
Absent == "absent"
Null == [null |-> TRUE]

\* JSON.stringify: the text of a value; a property whose value is undefined
\* is left out of the text.
JSONstringify(value) ==
  [exists |-> TRUE, valid |-> TRUE,
   json |-> IF "explorationDomain" \in DOMAIN value
            THEN [value EXCEPT !.explorationDomain =
                                  IF @ = Undefined THEN Absent ELSE @]
            ELSE value]

\* A file whose content is no JSON text.
InvalidJson == [exists |-> TRUE, valid |-> FALSE]

\* The menus the LLM names in its answer.
Menu(name, hrefs, criticality, priority) ==
  [menuName |-> name, routes |-> hrefs,
   businessCriticality |-> criticality, testingPriority |-> priority]

AnalysedMenus(n) ==
  IF n = 1
  THEN << Menu(<<"Payments">>, <<PathA, Href(UrlA), PathB>>, "High", "Medium"),
          Menu(<<"Account">>, <<PathLogOut, PathB>>, "High", "High") >>
  ELSE << Menu(<<"Reports">>, <<PathC>>, "Low", "Low") >>

\* What llmClient.generate resolves with: JSON in a code fence, bare JSON
\* without riskSummary, prose, or JSON without a navigationStructure array.
LlmResponses ==
  { [kind |-> "fenced", analysis |-> 1, risk |-> TRUE],
    [kind |-> "bare", analysis |-> 2, risk |-> FALSE],
    [kind |-> "prose", analysis |-> 0, risk |-> FALSE],
    [kind |-> "no menus", analysis |-> 0, risk |-> TRUE] }

NoRisk == [high |-> 0, medium |-> 0, low |-> 0]

\* RouteAnalyzer.parseAnalysisResponse: the analysis, or a throw.
parseAnalysisResponse(response) ==
  IF response.kind \in {"fenced", "bare"}
  THEN [ok |-> TRUE,
        value |-> [navigationStructure |-> AnalysedMenus(response.analysis),
                   riskSummary |-> IF response.risk
                                   THEN [high |-> 1, medium |-> 0, low |-> 0]
                                   ELSE NoRisk]]
  ELSE [ok |-> FALSE]

\* The menus RouteExplorer has written to a routes file.
ExtractedMenus ==
  << [menuName |-> <<"Home">>, menuType |-> "main", routes |-> <<PathA, PathD>>,
      subMenus |-> <<>>, routeCount |-> 2, isNavigationMenu |-> TRUE],
     [menuName |-> <<"Standalone Pages">>, menuType |-> "standalone",
      routes |-> <<PathC>>, subMenus |-> <<>>, routeCount |-> 1,
      isNavigationMenu |-> FALSE] >>

\* The content of output/routes.json.
RoutesData(discovered, domain, skipped, menus) ==
  [exists |-> TRUE, discoveredRoutes |-> discovered, failedRoutes |-> <<>>,
   explorationDomain |-> domain, skippedLogoutRoutes |-> skipped,
   navigationStructure |-> menus]

\* The routes files of the model: of a crawl that found nothing, of two
\* crawls (one with the logout link as the page wrote it, in capitals), and
\* one written without explorationDomain.
RoutesFiles ==
  { RoutesData(<<>>, AppOrigin, <<>>, <<>>),
    RoutesData(<<PathA>>, AppOrigin, <<>>, <<>>),
    RoutesData(<<PathA, PathB, PathC>>, AppOrigin,
               <<Href(UrlLogout)>>, ExtractedMenus),
    RoutesData(<<PathA, PathB>>, AppOrigin,
               <<Href(Url(AppOrigin, PathLogOut, <<>>))>>, ExtractedMenus),
    RoutesData(<<PathA, PathB>>, Undefined, <<>>, <<>>) }

\* The result analyzeRoutes returns for a routes file without routes.
EmptyAnalysis == [totalRoutes |-> 0, categories |-> <<>>, riskSummary |-> NoRisk]

\* The result of a fresh analysis with the metadata added.
enhancedResult(analysisResult, routesData) ==
  [navigationStructure |-> analysisResult.navigationStructure,
   riskSummary |-> analysisResult.riskSummary,
   totalRoutes |-> Len(routesData.discoveredRoutes),
   failedRoutes |-> Len(routesData.failedRoutes),
   explorationDomain |-> routesData.explorationDomain,
   originalRoutesData |->
     [successful |-> routesData.discoveredRoutes,
      failed |-> routesData.failedRoutes,
      skipped |-> routesData.skippedLogoutRoutes,
      extractedNavigation |-> routesData.navigationStructure]]

\* const cacheContent = { method: 'analyzeRoutes' }
cacheContent == [method |-> "analyzeRoutes"]

\* RouteAnalyzer.getCacheKey: the content is not looked at.
getCacheKey(methodName, content) == <<methodName, "_simple.json">>

\* getCachedResponse never finding the file.
getCachedResponseOff(enableCache, dir, methodName, content) == Null

\* RouteAnalyzer.getCachedResponse: null without caching, without the file
\* and for a file that does not parse.
getCachedResponse(enableCache, dir, methodName, content) ==
  LET cacheKey == getCacheKey(methodName, content)
  IN  IF ~enableCache THEN Null
      ELSE IF MapHas(dir, cacheKey)
        THEN IF MapGet(dir, cacheKey).valid THEN MapGet(dir, cacheKey).json
             ELSE Null
      ELSE Null

\* RouteAnalyzer.saveCachedResponse: a failing write is only logged.
saveCachedResponse(enableCache, writable, dir, methodName, content, response) ==
  IF enableCache /\ writable
  THEN MapSet(dir, getCacheKey(methodName, content), JSONstringify(response))
  ELSE dir

\* loadRoutesData throws: output/routes.json does not exist.
AnalyzeMissingFile(enableCache) ==
  /\ calls < MaxAnalyses
  /\ ~routesFile.exists
  /\ calls' = calls + 1
  /\ returned' = [outcome |-> "threw", llm |-> FALSE, enableCache |-> enableCache]
  /\ UNCHANGED <<config, fields, pc, browser, output, history, crawler,
                 cacheDir, routesFile, analysisFile, llmCalls>>

\* analyzeRoutes on a routes file without discovered routes.
AnalyzeNoRoutes(enableCache) ==
  /\ calls < MaxAnalyses
  /\ routesFile.exists
  /\ routesFile.discoveredRoutes = <<>>
  /\ calls' = calls + 1
  /\ returned' = [outcome |-> "returned", llm |-> FALSE,
                  enableCache |-> enableCache, value |-> EmptyAnalysis]
  /\ UNCHANGED <<config, fields, pc, browser, output, history, crawler,
                 cacheDir, routesFile, analysisFile, llmCalls>>

\* analyzeRoutes finding a cached response: it is saved as the analysis
\* and returned.
AnalyzeCached(enableCache) ==
  LET cachedResult ==
        getCachedResponse(enableCache, cacheDir, "analyzeRoutes", cacheContent)
  IN  /\ calls < MaxAnalyses
      /\ routesFile.exists
      /\ routesFile.discoveredRoutes # <<>>
      /\ cachedResult # Null
      /\ calls' = calls + 1
      /\ analysisFile' = JSONstringify(cachedResult)
      /\ returned' = [outcome |-> "returned", llm |-> FALSE,
                      enableCache |-> enableCache, value |-> cachedResult]
      /\ UNCHANGED <<config, fields, pc, browser, output, history, crawler,
                     cacheDir, routesFile, llmCalls>>

\* analyzeRoutes without a cached response: the LLM is asked; an answer
\* that parses is enhanced, cached, saved and returned, any other throws.
AnalyzeFresh(enableCache, response, writable) ==
  LET cachedResult ==
        getCachedResponse(enableCache, cacheDir, "analyzeRoutes", cacheContent)
      parsed == parseAnalysisResponse(response)
  IN  /\ calls < MaxAnalyses
      /\ routesFile.exists
      /\ routesFile.discoveredRoutes # <<>>
      /\ cachedResult = Null
      /\ calls' = calls + 1
      /\ llmCalls' = llmCalls + 1
      /\ IF parsed.ok
         THEN LET result == enhancedResult(parsed.value, routesFile)
              IN  /\ cacheDir' = saveCachedResponse(enableCache, writable, cacheDir,
                                    "analyzeRoutes", cacheContent, result)
                  /\ analysisFile' = JSONstringify(result)
                  /\ returned' = [outcome |-> "returned", llm |-> TRUE,
                                  enableCache |-> enableCache, value |-> result]
         ELSE /\ returned' = [outcome |-> "threw", llm |-> TRUE,
                              enableCache |-> enableCache]
              /\ UNCHANGED <<cacheDir, analysisFile>>
      /\ UNCHANGED <<config, fields, pc, browser, output, history, crawler,
                     routesFile>>

\* Another run of RouteExplorer, or the user, leaves another routes file.
RoutesFileWritten(data) ==
  /\ data # routesFile
  /\ routesFile' = data
  /\ UNCHANGED <<config, fields, pc, browser, output, history, crawler,
                 cacheDir, analysisFile, returned, llmCalls, calls>>

\* The response another stage caches in the same directory for its method.
DomAnalysis == [url |-> Href(UrlA), forms |-> <<>>]

\* DOMAnalyzer.analyze saves its response in the cache directory.
OtherStageCaches ==
  /\ cacheDir' = saveCachedResponse(TRUE, TRUE, cacheDir, "analyze",
                                    [method |-> "analyze"], DomAnalysis)
  /\ cacheDir' # cacheDir
  /\ UNCHANGED <<config, fields, pc, browser, output, history, crawler,
                 routesFile, analysisFile, returned, llmCalls, calls>>

AnalyzerNext ==
  \/ \E enableCache \in BOOLEAN : AnalyzeMissingFile(enableCache)
  \/ \E enableCache \in BOOLEAN : AnalyzeNoRoutes(enableCache)
  \/ \E enableCache \in BOOLEAN : AnalyzeCached(enableCache)
  \/ \E enableCache \in BOOLEAN, response \in LlmResponses, writable \in BOOLEAN :
       AnalyzeFresh(enableCache, response, writable)
  \/ \E data \in RoutesFiles : RoutesFileWritten(data)
  \/ OtherStageCaches

\* RouteAnalyzer instances in a working directory whose cache may hold a
\* file left over that does not parse.
AnalyzerInit ==
  /\ Constructed({1}, {0})
  /\ startUrl = UrlA
  /\ layout = 1
  /\ cacheDir \in { <<>>, MapSet(<<>>, getCacheKey("analyzeRoutes", cacheContent),
                                  InvalidJson) }
  /\ routesFile \in {NoFile} \cup RoutesFiles
  /\ AnalyzerIdle
  /\ CrawlerIdle

\* Calls of analyzeRoutes, by analyzers with and without caching.
AnalyzerSpec == AnalyzerInit /\ [][AnalyzerNext]_vars

\* -------------------------------------------------- generateCrawlData

\* process.env.BASE_URL
BASE_URL == ExtOrigin

\* The options of generateCrawlData: the defaults, those FlowTester passes
\* (every criticality, maxRoutes null) and a limit of one menu.
CrawlOptions ==
  { [businessCriticalityFilter |-> {"High"}, maxRoutes |-> 3],
    [businessCriticalityFilter |-> {"High", "Medium", "Low"}, maxRoutes |-> 0],
    [businessCriticalityFilter |-> {"High", "Medium", "Low"}, maxRoutes |-> 1] }

testingPriorityFilter == {"High", "Medium", "Low"}

\* config.sortOrder[priority] || 0
sortOrder(priority) ==
  CASE priority = "High" -> 3
    [] priority = "Medium" -> 2
    [] priority = "Low" -> 1
    [] OTHER -> 0

\* The analyses generateCrawlData is given: results of analyzeRoutes.
RouteAnalyses ==
  { enhancedResult(parseAnalysisResponse(response).value, data) :
      response \in { r \in LlmResponses : parseAnalysisResponse(r).ok },
      data \in { d \in RoutesFiles : d.discoveredRoutes # <<>> } }

MatchesFilters(route, crawlConfig) ==
  /\ route.businessCriticality \in crawlConfig.businessCriticalityFilter
  /\ route.testingPriority \in testingPriorityFilter

\* Array.prototype.sort by descending sortOrder of testingPriority; the
\* sort is stable.
SortByPriority(menus) ==
  SelectSeq(menus, LAMBDA m : sortOrder(m.testingPriority) = 3)
    \o SelectSeq(menus, LAMBDA m : sortOrder(m.testingPriority) = 2)
    \o SelectSeq(menus, LAMBDA m : sortOrder(m.testingPriority) = 1)
    \o SelectSeq(menus, LAMBDA m : sortOrder(m.testingPriority) = 0)

filteredRoutes(routeAnalysis, crawlConfig) ==
  SortByPriority(SelectSeq(routeAnalysis.navigationStructure,
                           LAMBDA route : MatchesFilters(route, crawlConfig)))

\* The menus of extractedNavigation with the default ratings.
additionalRoutes(routeAnalysis, crawlConfig) ==
  LET menus == SelectSeq(routeAnalysis.originalRoutesData.extractedNavigation,
                         LAMBDA navItem : navItem.isNavigationMenu
                                          /\ Len(navItem.routes) > 0)
      rated == [ i \in 1..Len(menus) |->
                   Menu(menus[i].menuName, menus[i].routes, "Medium", "Medium") ]
  IN  SelectSeq(rated, LAMBDA route : MatchesFilters(route, crawlConfig))

RECURSIVE Flatten(_)
\* The routes of the menus, one after the other.
Flatten(menus) ==
  IF menus = <<>> THEN <<>> ELSE Head(menus).routes \o Flatten(Tail(menus))

RECURSIVE AddNewRoutes(_, _)
\* The additional menus appended with the routes that no menu before has.
AddNewRoutes(all, additional) ==
  IF additional = <<>> THEN all
  ELSE LET existingRouteUrls == Range(Flatten(all))
           newRoutes == SelectSeq(Head(additional).routes,
                                  LAMBDA url : url \notin existingRouteUrls)
       IN  AddNewRoutes(IF Len(newRoutes) > 0
                        THEN Append(all, [Head(additional) EXCEPT !.routes = newRoutes])
                        ELSE all,
                        Tail(additional))

\* allRoutes.splice(config.maxRoutes) when maxRoutes is a positive number.
Splice(all, maxRoutes) ==
  IF maxRoutes > 0 /\ Len(all) > maxRoutes THEN SubSeq(all, 1, maxRoutes) ELSE all

allRoutes(routeAnalysis, crawlConfig) ==
  Splice(AddNewRoutes(filteredRoutes(routeAnalysis, crawlConfig),
                      additionalRoutes(routeAnalysis, crawlConfig)),
         crawlConfig.maxRoutes)

\* targetUrl.startsWith('http')
startsWithHttp(targetUrl) ==
  targetUrl # <<>> /\ Head(targetUrl) \in {AppOrigin, ExtOrigin}

\* routesData.explorationDomain || process.env.BASE_URL
correctDomain(routesData) ==
  IF routesData.explorationDomain = Undefined THEN BASE_URL
  ELSE routesData.explorationDomain

fullUrlOf(targetUrl, routesData) ==
  IF startsWithHttp(targetUrl) THEN targetUrl
  ELSE <<correctDomain(routesData)>> \o targetUrl

\* LowercasedSet keeping the URLs as the routes file has them.
SetAsWritten(urls) == Range(urls)

\* new Set(urls.map(url => url.toLowerCase()))
LowercasedSet(urls) == { toLowerCase(urls[i]) : i \in 1..Len(urls) }

\* IsProcessed finding no URL processed.
NeverProcessed(fullUrl, processed) == FALSE

\* processedUrls.has(fullUrl)
IsProcessed(fullUrl, processed) == fullUrl \in processed

\* The routes file does not exist: generateCrawlData throws.
CrawlDataNoRoutesFile ==
  /\ crawlPc.at = "idle"
  /\ ~routesFile.exists
  /\ crawlPc' = [crawlPc EXCEPT !.at = "threw"]
  /\ UNCHANGED <<config, fields, pc, browser, output, history, analyzer,
                 targets, skippedLogoutSet, processedUrls, navigations,
                 crawlSummary>>

\* generateCrawlData up to its loops: the skipped set is read from the
\* routes file and allRoutes computed; without a menu it returns at once.
StartCrawlData(routeAnalysis, options) ==
  LET all == allRoutes(routeAnalysis, options)
      flat == Flatten(all)
  IN  /\ crawlPc.at = "idle"
      /\ routesFile.exists
      /\ skippedLogoutSet' = LowercasedSet(routesFile.skippedLogoutRoutes)
      /\ targets' = [ j \in 1..Len(flat) |->
                        [targetUrl |-> flat[j],
                         fullUrl |-> fullUrlOf(flat[j], routesFile)] ]
      /\ crawlPc' = [at |-> IF Len(all) = 0 THEN "returned" ELSE "crawling",
                     next |-> 1, menus |-> Len(all)]
      /\ UNCHANGED <<config, fields, pc, browser, output, history, analyzer,
                     processedUrls, navigations, crawlSummary>>

\* The next target is a skipped logout route: continue.
SkipLogoutTarget ==
  /\ crawlPc.at = "crawling"
  /\ crawlPc.next <= Len(targets)
  /\ toLowerCase(targets[crawlPc.next].fullUrl) \in skippedLogoutSet
  /\ crawlPc' = [crawlPc EXCEPT !.next = @ + 1]
  /\ UNCHANGED <<config, fields, pc, browser, output, history, analyzer,
                 targets, skippedLogoutSet, processedUrls, navigations,
                 crawlSummary>>

\* The next target has been processed already: continue.
SkipProcessedTarget ==
  /\ crawlPc.at = "crawling"
  /\ crawlPc.next <= Len(targets)
  /\ toLowerCase(targets[crawlPc.next].fullUrl) \notin skippedLogoutSet
  /\ IsProcessed(targets[crawlPc.next].fullUrl, processedUrls)
  /\ crawlPc' = [crawlPc EXCEPT !.next = @ + 1]
  /\ UNCHANGED <<config, fields, pc, browser, output, history, analyzer,
                 targets, skippedLogoutSet, processedUrls, navigations,
                 crawlSummary>>

\* What the crawl of one target comes to: no session (the browser does not
\* launch or storage-state.json is missing: page.goto is not reached), a
\* navigation that fails, or a page whose DOM is written.
CrawlOutcomes == {"no session", "goto failed", "loaded"}

\* The next target is crawled: it is marked processed, a browser is
\* launched for it and closed again; every error is caught and logged.
CrawlTarget(outcome) ==
  LET fullUrl == targets[crawlPc.next].fullUrl
  IN  /\ crawlPc.at = "crawling"
      /\ crawlPc.next <= Len(targets)
      /\ toLowerCase(fullUrl) \notin skippedLogoutSet
      /\ ~IsProcessed(fullUrl, processedUrls)
      /\ processedUrls' = processedUrls \cup {fullUrl}
      /\ navigations' = IF outcome = "no session" THEN navigations
                        ELSE Append(navigations,
                                    [url |-> fullUrl, loaded |-> outcome = "loaded"])
      /\ crawlPc' = [crawlPc EXCEPT !.next = @ + 1]
      /\ UNCHANGED <<config, fields, pc, browser, output, history, analyzer,
                     targets, skippedLogoutSet, crawlSummary>>

\* After the loops: crawl-summary.json is written.
FinishCrawlData ==
  /\ crawlPc.at = "crawling"
  /\ crawlPc.next > Len(targets)
  /\ crawlSummary' =
       [exists |-> TRUE,
        totalMenusFound |-> crawlPc.menus,
        totalIndividualRoutes |-> Len(targets),
        uniqueRoutesProcessed |-> Cardinality(processedUrls),
        duplicatesSkipped |-> Len(targets) - Cardinality(processedUrls)]
  /\ crawlPc' = [crawlPc EXCEPT !.at = "returned"]
  /\ UNCHANGED <<config, fields, pc, browser, output, history, analyzer,
                 targets, skippedLogoutSet, processedUrls, navigations>>

CrawlDataNext ==
  \/ CrawlDataNoRoutesFile
  \/ \E routeAnalysis \in RouteAnalyses, options \in CrawlOptions :
       StartCrawlData(routeAnalysis, options)
  \/ SkipLogoutTarget
  \/ SkipProcessedTarget
  \/ \E outcome \in CrawlOutcomes : CrawlTarget(outcome)
  \/ FinishCrawlData

\* One call of generateCrawlData, whatever the routes file holds.
CrawlDataInit ==
  /\ Constructed({1}, {0})
  /\ startUrl = UrlA
  /\ layout = 1
  /\ cacheDir = <<>>
  /\ routesFile \in {NoFile} \cup RoutesFiles
  /\ AnalyzerIdle
  /\ CrawlerIdle

CrawlDataSpec == CrawlDataInit /\ [][CrawlDataNext]_vars

\* ------------------------------------------------------------- types

TypeOK ==
  /\ pc \in {"init", "crawling", "navigating", "backoff", "aggregating",
            "done", "error"}
  /\ browser \in {"none", "open", "closed", "lost"}
  /\ visited \subseteq AllUrls
  /\ Range(queue) \subseteq AllUrls
  /\ Len(output) \in 0..MaxCalls

\* ------------------------------------------------------------ claims

FailedUrls == { failedRoutes[i].url : i \in 1..Len(failedRoutes) }
Navigated == { u \in AllUrls : attempts[u] > 0 }
Succeeded == { served[i].url : i \in 1..Len(served) }
Done == pc = "done"
\* The report, once explore() has returned.
TheReport == output[1]

\* C1: in every state of explore(), and in the report, discoveredRoutes has
\* at most maxPages entries, maxPages being the option as configured.
C1_AtMostMaxPages ==
  /\ Len(routes) <= optMaxPages
  /\ Done => Len(TheReport.discoveredRoutes) <= optMaxPages

\* The budget stops a crawl that still has URLs pending, failures included.
C1_Witness ==
  /\ Done
  /\ Len(TheReport.discoveredRoutes) = optMaxPages
  /\ queue # <<>>
  /\ fails > 0

\* C2: when the crawl was not cut short (the frontier is empty at the end),
\* a URL all of whose navigations failed was attempted exactly N+1 times,
\* N being the maxRetries option as configured, and is in failedRoutes; for
\* N = 2 that is 3 attempts and retryAttempts = 3.
C2_AlwaysFailing ==
  (Done /\ queue = <<>>) =>
    \A u \in Navigated \ Succeeded :
      /\ attempts[u] = optMaxRetries + 1
      /\ \E i \in 1..Len(failedRoutes) :
           /\ failedRoutes[i].url = u
           /\ optMaxRetries = 2 => failedRoutes[i].retryAttempts = 3

\* C3: every FailedRoute has retryAttempts = maxRetries + 1, maxRetries
\* being the option as configured (any non-negative integer).
C3_RetryAttempts ==
  \A i \in 1..Len(failedRoutes) :
    failedRoutes[i].retryAttempts = optMaxRetries + 1

\* C4: a URL recorded in failedRoutes is never navigated again.
C4_FailedNeverNavigated ==
  [][\A u \in FailedUrls : attempts'[u] = attempts[u]]_vars

\* A pending copy of a failed URL is taken from the frontier and skipped.
C4_Witness == last.op = "skip" /\ last.url \in FailedUrls

\* C5 as stated: a URL recorded in failedRoutes has no occurrence in the
\* frontier.
C5_NotInFrontier == \A u \in FailedUrls : u \notin Range(queue)

\* C5 as amended: a URL recorded in failedRoutes is never pushed on the
\* frontier again: the number of its occurrences there never grows.
C5_NeverPushedAgain ==
  [][\A u \in FailedUrls : Count(queue', u) <= Count(queue, u)]_vars

\* A page visited after the failure links to the failed URL.
C5_Witness ==
  /\ last.op = "visit"
  /\ \E l \in Range(served[Len(served)].links) :
       Resolve(normalize(l), explorationDomain) \in FailedUrls

\* The path of a link is itself matched by the logout guard.
PathMatched(l) == shouldSkipRoute(Resolve(normalize(l), explorationDomain))

\* C6 as stated: a same-origin link matched by the guard is never
\* navigated, its path is never in discoveredRoutes, and it is exactly once
\* in the report's skippedLogoutRoutes.
C6_LogoutLinkNeverDiscovered ==
  \A l \in Range(skippedLogoutRoutes) :
    /\ attempts[l] = 0
    /\ normalize(l) \notin Range(routes)
    /\ Done => Count(TheReport.skippedLogoutRoutes, l) = 1

\* C6 as amended: such a link is never navigated unless it is the start
\* URL, it is exactly once in the report's skippedLogoutRoutes, and when
\* the guard matches its path, the path is in discoveredRoutes only if it
\* is the path of the start URL.
C6_LogoutLinkSkipped ==
  \A l \in Range(skippedLogoutRoutes) :
    /\ l # startUrl => attempts[l] = 0
    /\ (PathMatched(l) /\ normalize(l) # normalize(startUrl))
         => normalize(l) \notin Range(routes)
    /\ Done => Count(TheReport.skippedLogoutRoutes, l) = 1

\* A logout link is served by several pages and the report is out.
C6_Witness ==
  /\ Done
  /\ Count(skippedLogoutRoutes, UrlLogout) >= 2
  /\ normalize(UrlLogout) \notin Range(routes)

\* C7 as stated: no URL matched by the guard is pushed on the frontier or
\* navigated.
C7_NoLogoutInFrontier ==
  \A u \in Range(enqLog) \cup Navigated : ~shouldSkipRoute(u)

\* C7 as amended: the only URL matched by the guard that is pushed on the
\* frontier or navigated is the start URL, which is seeded unchecked.
C7_OnlyStartUnguarded ==
  \A u \in Range(enqLog) \cup Navigated : shouldSkipRoute(u) => u = startUrl

\* Pages have served links matched by the guard, in path and in query.
C7_Witness ==
  /\ UrlExit \in Range(skippedLogoutRoutes)
  /\ UrlBexit \in Range(skippedLogoutRoutes)
  /\ queue # <<>>

\* The hrefs of the emitted groups and of their subMenus.
EmittedHrefs(hierarchy) ==
  UNION { Range(hierarchy[i].routes) \cup
          UNION { Range(hierarchy[i].subMenus[j].routes) :
                  j \in 1..Len(hierarchy[i].subMenus) } :
          i \in 1..Len(hierarchy) }

\* The routes of the emitted standalone group.
EmittedStandalone(hierarchy) ==
  UNION { Range(hierarchy[i].routes) :
          i \in { k \in 1..Len(hierarchy) : hierarchy[k].menuType = "standalone" } }

\* The hrefs of the main-menu items and of the sub-items of the extracts.
MainAndSubHrefs(navStructure) ==
  UNION { { navStructure[i].value.mainItems[j].href :
            j \in 1..Len(navStructure[i].value.mainItems) } \cup
          UNION { { navStructure[i].value.sidebarItems[j].subItems[k].href :
                    k \in 1..Len(navStructure[i].value.sidebarItems[j].subItems) } :
                  j \in 1..Len(navStructure[i].value.sidebarItems) } :
          i \in 1..Len(navStructure) }

TopItems(navStructure) ==
  UNION { { Item(navStructure[i].value.mainItems[j].text,
                 navStructure[i].value.mainItems[j].href) :
            j \in 1..Len(navStructure[i].value.mainItems) } \cup
          { Item(navStructure[i].value.sidebarItems[j].text,
                 navStructure[i].value.sidebarItems[j].href) :
            j \in 1..Len(navStructure[i].value.sidebarItems) } :
          i \in 1..Len(navStructure) }

\* C9: the items whose text is equal after trim and lower-casing are in
\* exactly one emitted group, which holds the href of each of them; no two
\* emitted navigation groups have names equal after trim and lower-casing.
C9_MergedByLabel ==
  Done =>
    LET h == TheReport.navigationStructure
        navGroups == { i \in 1..Len(h) : h[i].isNavigationMenu }
    IN  /\ \A it \in TopItems(navigationStructure) :
             \E i \in navGroups :
               /\ menuKeyOf(h[i].menuName) = menuKeyOf(it.text)
               /\ it.href \in Range(h[i].routes)
        /\ \A i, j \in navGroups :
             menuKeyOf(h[i].menuName) = menuKeyOf(h[j].menuName) => i = j

\* The distinct URLs pushed on the frontier, in the order of first push.
FirstPushes == SetFrom(enqLog)

\* C10: with no navigation failure, discoveredRoutes lists the pages in
\* the order in which they were first pushed on the frontier and stops at
\* the budget or when the frontier is used up; for A -> B, C and
\* B -> D, logout with maxPages = 3 the report has [A, B, C], the logout
\* URL skipped, and no failed route.
C10_FifoOrder ==
  fails = 0 =>
    /\ Len(routes) <= Len(FirstPushes)
    /\ \A i \in 1..Len(routes) : routes[i] = normalize(FirstPushes[i])
    /\ Done => \/ Len(TheReport.discoveredRoutes) = maxPages
               \/ Len(TheReport.discoveredRoutes) = Len(FirstPushes)
    /\ ( /\ Done
         /\ startUrl = UrlA
         /\ optMaxPages = 3
         /\ Len(served) >= 2
         /\ served[1].links = <<UrlB, UrlC>>
         /\ served[2].links = <<UrlD, UrlLogout>> )
       => /\ TheReport.discoveredRoutes = <<PathA, PathB, PathC>>
          /\ UrlLogout \in Range(TheReport.skippedLogoutRoutes)
          /\ TheReport.failedRoutes = <<>>

\* The end-to-end crawl of A -> B, C and B -> D, logout is done.
C10_Witness ==
  /\ Done
  /\ fails = 0
  /\ startUrl = UrlA
  /\ optMaxPages = 3
  /\ Len(served) = 3
  /\ served[1].links = <<UrlB, UrlC>>
  /\ served[2].links = <<UrlD, UrlLogout>>
  /\ UrlD \in Range(queue)

\* C11: on every exit path of explore(), the normal return and the
\* rejection when the creation of the browser, the context or the page
\* fails, the browser has been released (closed, or never acquired).
C11_SessionReleased ==
  pc \in {"done", "error"} => browser \in {"none", "closed"}

\* The URLs of the report's failedRoutes and skippedLogoutRoutes.
ReportFailedUrls ==
  { TheReport.failedRoutes[i].url : i \in 1..Len(TheReport.failedRoutes) }
ReportSkippedUrls == Range(TheReport.skippedLogoutRoutes)

\* C12: in the final report the discovered URLs, the failed URLs and the
\* skipped logout URLs are pairwise disjoint, for every start URL and site
\* graph.
C12_PairwiseDisjoint ==
  Done => /\ Succeeded \cap ReportFailedUrls = {}
          /\ Succeeded \cap ReportSkippedUrls = {}
          /\ ReportFailedUrls \cap ReportSkippedUrls = {}

\* On a site all of whose links resolve (Spec): discovered and failed URLs
\* are disjoint, failed and skipped URLs are disjoint, and the only URL that
\* can be both discovered and skipped is the start URL, which is seeded
\* without the logout guard. A page whose link loop throws (SlashSpec) is
\* discovered and, its retries used up, recorded as failed as well.
C12_DisjointButStart ==
  Done => /\ Succeeded \cap ReportFailedUrls = {}
          /\ ReportFailedUrls \cap ReportSkippedUrls = {}
          /\ Succeeded \cap ReportSkippedUrls \subseteq {startUrl}

\* A report with a failed URL and with the start URL both discovered and
\* skipped as a link of a later page.
C12_Witness ==
  /\ Done
  /\ ReportFailedUrls # {}
  /\ startUrl \in Succeeded \cap ReportSkippedUrls

\* C13: when the crawl ends, the number of distinct URLs on which a
\* navigation was attempted equals |discoveredRoutes| + |failedRoutes|, the
\* report's summary.total, also when the page budget is reached while a
\* failed URL is still waiting in the frontier for a retry.
C13_TotalAttempted ==
  Done =>
    /\ Cardinality(Navigated) =
         Len(TheReport.discoveredRoutes) + Len(TheReport.failedRoutes)
    /\ Cardinality(Navigated) = TheReport.summary.total

\* C14: organizeMenuHierarchy runs exactly once per crawl, after the crawl
\* loop has ended and the browser is closed, never between two page visits:
\* no navigation follows it, and the hierarchy it returns is computed from
\* every extract and every route of the crawl.
C14_AggregatesOnceAfterCrawl ==
  [][ /\ aggregations' # aggregations =>
           /\ aggregations = 0 /\ aggregations' = 1
           /\ pc = "aggregating" /\ ~LoopCond /\ browser = "closed"
      /\ aggregations > 0 => attempts' = attempts /\ served' = served
      /\ pc' = "done" =>
           /\ aggregations' = 1
           /\ menuHierarchy' =
                organizeMenuHierarchy(navigationStructure', routes')
           /\ TheReport'.navigationStructure = menuHierarchy' ]_vars

\* A crawl of several pages with menus has been aggregated once.
C14_Witness ==
  /\ Done
  /\ aggregations = 1
  /\ Len(served) >= 2
  /\ Len(navigationStructure) >= 2
  /\ TheReport.navigationStructure # <<>>

\* One more step of the while loop of explore(), or its end.
LoopStep ==
  \/ ExitLoop
  \/ SkipVisited
  \/ RetryNavigation
  \/ RecordFailure
  \/ \E links \in LinkLists : VisitPage(links)

\* C15: a navigation failure never aborts the run: the failing step leaves
\* explore() in its loop with the rest of the frontier, explore() never
\* rejects once a navigation has failed, and from then on it has returned
\* its report, or is assembling it, or has a next step of the loop to take.
C15_FailureDoesNotAbort ==
  /\ [][fails' > fails =>
          /\ pc' = "crawling"
          /\ queue' \in {Tail(queue), Append(Tail(queue), Head(queue))}]_vars
  /\ [](fails > 0 => /\ pc # "error"
                     /\ \/ Done /\ Len(output) = 1
                        \/ pc = "aggregating"
                        \/ ENABLED LoopStep)

\* A report returned by a crawl some of whose navigations failed, one URL
\* for good, and which visited pages after the failures.
C15_Witness ==
  /\ Done
  /\ fails > 1
  /\ failedRoutes # <<>>
  /\ last.op = "visit"
  /\ Len(TheReport.discoveredRoutes) >= 2

\* The links of `links` that the loop pushes on the frontier, given the
\* visited set of the moment.
Enqueueable(links, vis) ==
  { Resolve(normalize(links[i]), explorationDomain) :
      i \in { k \in 1..Len(links) :
                 /\ isInternal(links[k], explorationDomain)
                 /\ ~shouldSkipRoute(links[k])
                 /\ Resolve(normalize(links[k]), explorationDomain) \notin vis } }

\* C16: when navigation and link collection succeed on a page whose
\* navigation extraction throws, the page's path is still appended to
\* discoveredRoutes, no extract is stored, the page's links are still
\* processed (internal links enqueued, logout links recorded as skipped),
\* and there is neither a retry nor a FailedRoute.
C16_ExtractionFailureIsSoft ==
  [][ ( /\ Len(served') = Len(served) + 1
        /\ ~served'[Len(served')].navOk )
      => LET page == served'[Len(served')]
         IN  /\ routes' = Append(routes, normalize(page.url))
             /\ navigationStructure' = navigationStructure
             /\ ~MapHas(navigationStructure', normalize(page.url))
             /\ Range(Pushed(Tail(queue), queue')) =
                  Enqueueable(page.links, visited')
             /\ \A i \in 1..Len(page.links) :
                  (isInternal(page.links[i], explorationDomain)
                     /\ shouldSkipRoute(page.links[i]))
                  => page.links[i] \in Range(skippedLogoutRoutes')
             /\ failedRoutes' = failedRoutes
             /\ retryAttempts' = retryAttempts
             /\ fails' = fails
             /\ page.url \in visited'
             /\ pc' = "crawling" ]_vars

\* A page whose extraction threw has just been visited: it is discovered,
\* has no extract, and its links are on the frontier and among the skipped.
C16_Witness ==
  /\ last.op = "visit"
  /\ served # <<>>
  /\ ~served[Len(served)].navOk
  /\ routes[Len(routes)] = normalize(last.url)
  /\ ~MapHas(navigationStructure, normalize(last.url))
  /\ navigationStructure # <<>>
  /\ UrlD \in Range(queue)
  /\ UrlLogout \in Range(skippedLogoutRoutes)

\* The options the specification requires: maxPages >= 1, maxRetries >= 0.
ValidConfig == optMaxPages >= 1 /\ optMaxRetries >= 0

\* C17: with an invalid option (here maxPages < 1 or maxRetries < 0)
\* explore() fails before the crawl: no browser is ever acquired and no URL
\* is ever navigated.
C17_InvalidConfigRejected ==
  ~ValidConfig => /\ browser = "none"
                  /\ Navigated = {}
                  /\ pc \in {"init", "error"}

\* C18: once the browser session is lost mid-crawl the run fails as a
\* whole: no URL is navigated, retried or recorded as a FailedRoute after
\* the loss, and explore() does not go on to aggregate and return a report.
C18_SessionLossIsFatal ==
  [][browser = "lost" =>
       /\ attempts' = attempts
       /\ retryAttempts' = retryAttempts
       /\ failedRoutes' = failedRoutes
       /\ pc' \notin {"aggregating", "done"}]_vars

\* C19: the configured maxRetries is used as given for every non-negative
\* integer; with maxRetries = 0 a failing URL is attempted exactly once,
\* is never pushed back on the frontier, and is recorded with
\* retryAttempts = 1.
C19_MaxRetriesAsGiven ==
  /\ \A u \in AllUrls : retryAttempts[u] <= optMaxRetries
  /\ fails > 0 => maxRetries = optMaxRetries
  /\ optMaxRetries = 0 =>
       /\ \A u \in AllUrls : attempts[u] <= 1 /\ retryAttempts[u] = 0
       /\ last.op # "retry"
       /\ \A i \in 1..Len(failedRoutes) : failedRoutes[i].retryAttempts = 1

\* The tokens the specification lists for the logout guard, and the
\* patterns of the amended statement.
SpecTokens ==
  { <<"logout">>, <<"sign-out">>, <<"signout">>, <<"sign_out">>,
    <<"exit">>, <<"quit">>, <<"disconnect">>,
    <<"end-session">>, <<"endsession">>, <<"terminate">> }
AmendedPatterns ==
  (SpecTokens \ { <<"exit">>, <<"quit">>, <<"disconnect">> })
    \cup { <<"/", "exit">>, <<"/", "quit">>, <<"/", "disconnect">> }

ContainsOneOf(u, patterns) ==
  \E pattern \in patterns : includes(toLowerCase(Href(u)), pattern)

\* The links the visited pages have served so far.
ServedLinks == UNION { Range(served[i].links) : i \in 1..Len(served) }

\* The guard applied by a step of the loop to the links of the page it has
\* just visited, `patterns` being the patterns the guard is said to have:
\* shouldSkipRoute is true of a link exactly when its lowercased text
\* contains one of them, an internal link is among the skipped exactly
\* then, and a step that visits no page skips nothing.
GuardedBy(patterns) ==
  IF Len(served') = Len(served) + 1
  THEN \A link \in Range(served'[Len(served')].links) :
         /\ shouldSkipRoute(link) <=> ContainsOneOf(link, patterns)
         /\ isInternal(link, explorationDomain) =>
              (link \in Range(skippedLogoutRoutes')
                 <=> ContainsOneOf(link, patterns))
  ELSE skippedLogoutRoutes' = skippedLogoutRoutes

\* C20: shouldSkipRoute(url) is true exactly when the lowercased URL
\* contains, anywhere, one of the tokens logout, sign-out, signout,
\* sign_out, exit, quit, disconnect, end-session, endsession, terminate; so
\* an internal link a page serves is among the skipped exactly then.
C20_GuardTokens == [][GuardedBy(SpecTokens)]_vars

\* C20 amended: the same with the patterns /exit, /quit and /disconnect in
\* place of the bare words exit, quit and disconnect.
C20_GuardPatterns == [][GuardedBy(AmendedPatterns)]_vars

\* A page has served a link whose query holds the bare word quit, which the
\* guard let through, next to one whose query holds /exit, which it skipped.
C20_Witness ==
  /\ {UrlBquit, UrlBexit} \subseteq ServedLinks
  /\ ContainsOneOf(UrlBquit, SpecTokens)
  /\ UrlBquit \notin Range(skippedLogoutRoutes)
  /\ UrlBexit \in Range(skippedLogoutRoutes)
  /\ UrlB \in visited

\* The measure of the loop's progress: a page is discovered (at most
\* maxPages times), or else a retry is counted (at most maxRetries times per
\* URL), or else the frontier gets shorter.
Progress ==
  \/ Len(routes') > Len(routes)
  \/ /\ routes' = routes
     /\ \A u \in AllUrls : retryAttempts'[u] >= retryAttempts[u]
     /\ retryAttempts' # retryAttempts
  \/ /\ routes' = routes
     /\ retryAttempts' = retryAttempts
     /\ Len(queue') < Len(queue)

\* C21: the crawl loop terminates, whatever navigations fail: every
\* iteration makes progress in a measure that is bounded (by maxPages, by
\* maxRetries per URL, by the length of the frontier), the loop is left only
\* with the frontier empty or with maxPages routes discovered, explore() is
\* never stuck before DONE, and in DONE it has returned a report.
C21_LoopTerminates ==
  /\ [][ /\ (pc = "crawling" /\ pc' = "crawling") => Progress
         /\ (pc = "crawling" /\ pc' # "crawling") =>
              /\ queue = <<>> \/ Len(routes) >= maxPages
              /\ pc' = "aggregating" ]_vars
  /\ [] /\ Len(routes) <= maxPages
        /\ \A u \in AllUrls : retryAttempts[u] \in 0..maxRetries
        /\ pc = "crawling" => ENABLED LoopStep
        /\ pc \in {"init", "crawling", "navigating", "backoff", "aggregating",
            "done", "error"}
        /\ pc = "error" => Navigated = {}
        /\ Done => Len(output) = 1

\* explore() has returned after a crawl that the page budget did not cut
\* short: the frontier ran empty after visits, a retry and a failure for good.
C21_Witness ==
  /\ Done
  /\ queue = <<>>
  /\ Len(routes) < maxPages
  /\ routes # <<>>
  /\ failedRoutes # <<>>
  /\ \E u \in AllUrls : retryAttempts[u] > 0

\* The place of a state of explore() in INIT, CRAWLING, AGGREGATING, DONE;
\* a rejected explore() is over as well.
Rank(p) ==
  CASE p = "init" -> 0
    [] p = "crawling" -> 1
    [] p = "aggregating" -> 2
    [] OTHER -> 3

\* C22: an instance goes through INIT, CRAWLING, AGGREGATING, DONE in that
\* order and never back; once explore() has returned, a further call
\* navigates no page and acquires no browser.
C22_SingleShot ==
  [][ /\ Rank(pc') >= Rank(pc)
      /\ pc = "done" => /\ browser' = browser
                        /\ attempts' = attempts ]_vars

\* C23: once explore() has returned a report, nothing changes the contents
\* of that report, another explore() call on the instance included. The
\* report holds this.routes and this.failedRoutes themselves, so these two
\* arrays must stay as they are; its skippedLogoutRoutes and
\* navigationStructure are arrays of its own.
C23_ReportImmutable ==
  /\ [][Len(output) >= 1 =>
          /\ routes' = routes
          /\ failedRoutes' = failedRoutes
          /\ output'[1] = output[1]]_vars
  /\ [](Len(output) >= 1 =>
          /\ TheReport.discoveredRoutes = routes
          /\ TheReport.failedRoutes = failedRoutes)

\* A second explore() call has run to its end on an instance whose first
\* call had emptied the frontier: it took the start URL and skipped it.
C23_Witness ==
  /\ Done
  /\ Len(output) = 2
  /\ Count(enqLog, startUrl) >= 2
  /\ queue = <<>>
  /\ last = [op |-> "skip", url |-> startUrl]
  /\ TheReport.discoveredRoutes # <<>>
  /\ TheReport.failedRoutes # <<>>

\* C24: normalize is idempotent on the path: for every URL u the crawl
\* handles (the start URL, the links of the visited pages), normalizing the
\* URL rebuilt from normalize(u) on the exploration domain gives normalize(u)
\* again, and normalize(u) holds nothing of the query or fragment of u.
C24_NormalizeIdempotent ==
  \A u \in { v \in {startUrl} \cup ServedLinks : Parses(v) } :
    /\ normalize(Resolve(normalize(u), explorationDomain)) = normalize(u)
    /\ Range(normalize(u)) \cap {"?", "#"} = {}
    /\ u.suffix # <<>> => ~includes(normalize(u), u.suffix)

\* A step in which page.goto was called on the head of the frontier and the
\* iteration did not end as a visit.
NavigationFailed ==
  /\ pc = "crawling"
  /\ queue # <<>>
  /\ attempts'[Head(queue)] = attempts[Head(queue)] + 1
  /\ served' = served

\* C25: a navigation failure on u with attempts(u) < maxRetries adds exactly
\* 1 to attempts(u), takes u out of the visited set and appends u to the
\* tail of the frontier; it changes no other count, leaves discoveredRoutes,
\* failedRoutes, skippedLogoutRoutes and the stored extracts as they are and
\* enqueues nothing else.
C25_RetryStep ==
  [][ (NavigationFailed /\ retryAttempts[Head(queue)] < maxRetries)
      => LET u == Head(queue)
         IN  /\ retryAttempts' =
                  [retryAttempts EXCEPT ![u] = retryAttempts[u] + 1]
             /\ visited' = visited \ {u}
             /\ queue' = Append(Tail(queue), u)
             /\ routes' = routes
             /\ failedRoutes' = failedRoutes
             /\ skippedLogoutRoutes' = skippedLogoutRoutes
             /\ navigationStructure' = navigationStructure
             /\ pc' = "crawling" ]_vars

\* The second retry of a URL has just been scheduled behind other pending
\* URLs, after pages have been discovered.
C25_Witness ==
  /\ last.op = "retry"
  /\ retryAttempts[last.url] = 2
  /\ Len(queue) >= 2
  /\ queue[Len(queue)] = last.url
  /\ last.url \notin visited
  /\ routes # <<>>

\* The number of iterations on u in which page.goto and page.$$eval
\* succeeded.
Successes(u) == Cardinality({ i \in 1..Len(served) : served[i].url = u })

\* C26: in one crawl every URL is navigated at most maxRetries + 1 times and
\* at most one of these navigations succeeds, whatever copies of the URL
\* the frontier holds and although a URL awaiting a retry is not in the
\* visited set; the stored retry count never exceeds maxRetries.
C26_AttemptsBounded ==
  \A u \in AllUrls :
    /\ attempts[u] <= maxRetries + 1
    /\ Successes(u) <= 1
    /\ retryAttempts[u] <= maxRetries

\* C27: an iteration that dequeues a URL already in the visited set is a
\* pure skip: it removes that one entry of the frontier and changes nothing
\* else (no navigation; discoveredRoutes, failedRoutes, retry counts, the
\* visited set, the skipped links and the extracts stay), so it uses no
\* page budget.
C27_SkipIsPure ==
  [][ (pc = "crawling" /\ LoopCond /\ Head(queue) \in visited)
      => /\ queue' = Tail(queue)
         /\ attempts' = attempts
         /\ served' = served
         /\ routes' = routes
         /\ failedRoutes' = failedRoutes
         /\ retryAttempts' = retryAttempts
         /\ visited' = visited
         /\ skippedLogoutRoutes' = skippedLogoutRoutes
         /\ navigationStructure' = navigationStructure
         /\ pc' = "crawling" /\ browser' = browser ]_vars

\* A visited URL has just been dequeued and skipped, with budget left and
\* other URLs pending.
C27_Witness ==
  /\ pc = "crawling"
  /\ last.op = "skip"
  /\ last.url \in visited
  /\ Len(routes) \in 1..(maxPages - 1)
  /\ queue # <<>>

\* C28: isInternal(url) is true exactly when url parses and its origin is
\* the origin of the start URL, whatever baseUrl is: of the links a page
\* serves, those on the start URL's origin are handled as internal (skipped
\* as logout links, or on the frontier, or visited already, once the page's
\* link loop has run to its end), while those on the origin of baseUrl and
\* those that do not parse are dropped.
C28_InternalByStartOrigin ==
  [][ Len(served') = Len(served) + 1 =>
        \A link \in Range(served'[Len(served')].links) :
          LET onStartOrigin == Parses(link) /\ link.origin = startUrl.origin
          IN  /\ isInternal(link, explorationDomain) <=> onStartOrigin
              /\ (onStartOrigin /\ last'.op = "visit") =>
                   \/ link \in Range(skippedLogoutRoutes')
                   \/ Resolve(normalize(link), startUrl.origin)
                        \in visited' \cup Range(queue')
              /\ ~onStartOrigin =>
                   /\ link \notin Range(skippedLogoutRoutes')
                   /\ Range(Pushed(Tail(queue), queue'))
                        \subseteq Range(Tail(queue)) \cup
                          { Resolve(normalize(l), startUrl.origin) :
                              l \in { k \in Range(served'[Len(served')].links) :
                                        Parses(k) /\ k.origin = startUrl.origin } }
                                 \cup {Head(queue)} ]_vars

\* A page has served links on the start URL's origin, a link on the origin of
\* baseUrl and a text that is no URL: only the first are on the frontier.
C28_Witness ==
  /\ last.op = "visit"
  /\ {UrlB, UrlExt, UrlUnparsable} \subseteq Range(served[Len(served)].links)
  /\ OriginOf(baseUrl) = OriginOf(UrlExt)
  /\ OriginOf(baseUrl) # explorationDomain
  /\ UrlB \in Range(queue)
  /\ \A i \in 1..Len(queue) : OriginOf(queue[i]) = explorationDomain

\* C29: every URL that a page's link loop puts on the frontier is the
\* exploration domain's origin joined with the path of one of the page's
\* links, without query or fragment and never on the authentication origin
\* (that of baseUrl); that link was internal and not logout-matched, the URL
\* was not in visited when it was enqueued, and no external link is enqueued.
C29_EnqueuedFromLinks ==
  [][ (Len(served') = Len(served) + 1 /\ last'.op = "visit") =>
        LET links == Range(served'[Len(served')].links)
            pushed == Range(Pushed(Tail(queue), queue'))
        IN  /\ \A u \in pushed :
                  /\ u.origin = explorationDomain
                  /\ u.origin # OriginOf(baseUrl)
                  /\ u.suffix = <<>>
                  /\ u \notin visited'
                  /\ \E link \in links :
                        /\ isInternal(link, explorationDomain)
                        /\ ~shouldSkipRoute(link)
                        /\ u = Url(explorationDomain, normalize(link), <<>>)
            /\ \A link \in links :
                  ~isInternal(link, explorationDomain) =>
                    \A u \in pushed : u.origin # link.origin ]_vars

\* The hrefs a MenuGroup or a subMenu holds: those of the main-menu items,
\* of the top-level sidebar items and of the sub-items of the extracts.
ClaimedHrefs(navStructure) ==
  { item.href : item \in TopItems(navStructure) } \cup MainAndSubHrefs(navStructure)

\* C30: the standalone group holds exactly the discovered routes that are
\* the href of no main-menu item, of no top-level sidebar item and of no
\* sub-item; no route of the standalone group is in the routes of another
\* group or of a subMenu; the group is emitted exactly when there is such a
\* route.
C30_StandaloneExact ==
  (Done /\ Len(output) = 1) =>
    LET hierarchy == TheReport.navigationStructure
        unclaimed == Range(routes) \ ClaimedHrefs(navigationStructure)
        others == SelectSeq(hierarchy, LAMBDA g : g.menuType # "standalone")
    IN  /\ EmittedStandalone(hierarchy) = unclaimed
        /\ EmittedStandalone(hierarchy) \cap EmittedHrefs(others) = {}
        /\ (\E i \in 1..Len(hierarchy) : hierarchy[i].menuType = "standalone")
             <=> unclaimed # {}

RECURSIVE ScanKeys(_)
\* The keys of the main-menu and top-level sidebar items of the extracts, in
\* the order the fold meets them.
ScanKeys(navStructure) ==
  IF navStructure = <<>> THEN <<>>
  ELSE LET nav == Head(navStructure).value
       IN  [ j \in 1..Len(nav.mainItems) |-> menuKeyOf(nav.mainItems[j].text) ]
           \o [ j \in 1..Len(nav.sidebarItems) |-> menuKeyOf(nav.sidebarItems[j].text) ]
           \o ScanKeys(Tail(navStructure))

\* C31: the emitted groups are in the order in which their keys were first
\* seen during the fold, one group per key, and the standalone group, when
\* there is one, is the last element.
C31_FirstSeenOrder ==
  (Done /\ Len(output) = 1) =>
    LET hierarchy == TheReport.navigationStructure
        firstSeen == SetFrom(ScanKeys(navigationStructure))
        navGroups == SelectSeq(hierarchy, LAMBDA g : g.menuType # "standalone")
    IN  /\ Len(navGroups) = Len(firstSeen)
        /\ \A i \in 1..Len(navGroups) : menuKeyOf(navGroups[i].menuName) = firstSeen[i]
        /\ \A i \in 1..Len(hierarchy) :
              hierarchy[i].menuType = "standalone" => i = Len(hierarchy)

\* The top-level sidebar items of the stored extracts.
SidebarItems(navStructure) ==
  UNION { Range(navStructure[i].value.sidebarItems) : i \in 1..Len(navStructure) }

\* The hrefs of the sub-items of label key `subKey` under those of the
\* sidebar items `items` whose label key is `menuKey`.
SubHrefs(items, menuKey, subKey) ==
  { sub.href :
      sub \in { s \in UNION { Range(item.subItems) :
                               item \in { it \in items : menuKeyOf(it.text) = menuKey } } :
                  menuKeyOf(s.text) = subKey } }

\* The menuGroups map as the fold over the stored extracts leaves it.
FoldedGroups ==
  FoldPages([menuGroups |-> <<>>, allMenuItems |-> {}], navigationStructure).menuGroups

\* The subMenus of the folded groups and of the report, once explore() has
\* returned, are those of the sub-items by parent group and label key.
SubMenusPerParent ==
  (Done /\ Len(output) = 1) =>
    LET hierarchy == TheReport.navigationStructure
        folded == FoldedGroups
        items == SidebarItems(navigationStructure)
    IN  /\ \A g \in 1..Len(folded) :
              LET menuKey == folded[g].key
                  subMenus == folded[g].value.subMenus
              IN  /\ \A i, j \in 1..Len(subMenus) :
                        subMenus[i].key = subMenus[j].key => i = j
                  /\ \A i \in 1..Len(subMenus) :
                        /\ Range(subMenus[i].value.routes)
                             = SubHrefs(items, menuKey, subMenus[i].key)
                        /\ subMenus[i].key = menuKeyOf(subMenus[i].value.subMenuName)
                  /\ \A item \in items :
                        menuKeyOf(item.text) = menuKey =>
                          \A sub \in Range(item.subItems) :
                            MapHas(subMenus, menuKeyOf(sub.text))
        /\ \A item \in items : MapHas(folded, menuKeyOf(item.text))
        /\ \A k \in 1..Len(hierarchy) :
              hierarchy[k].menuType # "standalone" =>
                \E g \in 1..Len(folded) :
                  /\ folded[g].value.menuName = hierarchy[k].menuName
                  /\ Len(hierarchy[k].subMenus) = Len(folded[g].value.subMenus)
                  /\ \A i \in 1..Len(hierarchy[k].subMenus) :
                        hierarchy[k].subMenus[i].routes
                          = folded[g].value.subMenus[i].value.routes

\* C32: in the folded groups a subMenu is keyed by its parent group and the
\* key of its label: when explore() returns, within a group no two subMenus
\* have the same key, the subMenu of a key holds exactly the hrefs of the
\* sub-items of that key under the sidebar items of that group, and every
\* such sub-item has its subMenu; the navigation groups are emitted with
\* these subMenus.
C32_SubMenusPerParent == Done => SubMenusPerParent

\* Two pages have rendered the sub-item label "Daily" under the sidebar
\* items "Reports" and "reports", and under "Settings": the first two are
\* one subMenu with both hrefs, the third is a subMenu of its own.
C32_Witness ==
  /\ Done /\ Len(output) = 1
  /\ \E k1, k2 \in 1..Len(TheReport.navigationStructure) :
        LET reports == TheReport.navigationStructure[k1]
            settings == TheReport.navigationStructure[k2]
        IN  /\ reports.menuName = <<"Reports">>
            /\ settings.menuName = <<"Settings">>
            /\ Len(reports.subMenus) = 1
            /\ reports.subMenus[1].routes = <<PathD, PathA>>
            /\ Len(settings.subMenus) = 1
            /\ settings.subMenus[1].routes = <<PathB>>

RECURSIVE ScanItems(_)
\* The main-menu and top-level sidebar items of the extracts, as text and
\* href, in the order the fold meets them.
ScanItems(navStructure) ==
  IF navStructure = <<>> THEN <<>>
  ELSE LET nav == Head(navStructure).value
       IN  [ j \in 1..Len(nav.mainItems) |->
               Item(nav.mainItems[j].text, nav.mainItems[j].href) ]
           \o [ j \in 1..Len(nav.sidebarItems) |->
                  Item(nav.sidebarItems[j].text, nav.sidebarItems[j].href) ]
           \o ScanItems(Tail(navStructure))

\* The sequence `s` without the entries that an earlier entry equals.
FirstOccurrences(s) ==
  SelectSeq([ i \in 1..Len(s) |-> [at |-> i, value |-> s[i]] ],
            LAMBDA e : \A j \in 1..(e.at - 1) : s[j] # e.value)

\* The hrefs, in scan order, of the items whose key is that of `name`.
HrefsInOrder(navStructure, name) ==
  LET items == SelectSeq(ScanItems(navStructure),
                         LAMBDA item : menuKeyOf(item.text) = menuKeyOf(name))
  IN  [ i \in 1..Len(items) |-> items[i].href ]

\* The routes of the groups of the report, once explore() has returned, are
\* the hrefs inserted, each once, in the order of first insertion.
RoutesAreOrderedSets ==
  (Done /\ Len(output) = 1) =>
    \A k \in 1..Len(TheReport.navigationStructure) :
      LET group == TheReport.navigationStructure[k]
          inserted == IF group.menuType = "standalone"
                      THEN SelectSeq(routes, LAMBDA r :
                             r \notin MainAndSubHrefs(navigationStructure))
                      ELSE HrefsInOrder(navigationStructure, group.menuName)
          first == FirstOccurrences(inserted)
      IN  /\ \A i, j \in 1..Len(group.routes) :
                group.routes[i] = group.routes[j] => i = j
          /\ Len(group.routes) = Len(first)
          /\ \A i \in 1..Len(first) : group.routes[i] = first[i].value
          /\ group.routeCount = Len(group.routes)

\* C33: when explore() returns, the routes of every emitted group hold no
\* href twice and are in the order of first insertion (for a navigation
\* group the order in which the fold met the hrefs of its items, for the
\* standalone group the order of discovery), and routeCount is the number
\* of entries of routes.
C33_RoutesAreOrderedSets == Done => RoutesAreOrderedSets

\* Three pages have rendered a "Dashboard" item, two of them with the same
\* href: the group lists the two hrefs once each, in the order first seen.
C33_Witness ==
  /\ Done /\ Len(output) = 1
  /\ Len(HrefsInOrder(navigationStructure, <<"Dashboard">>)) = 3
  /\ \E k \in 1..Len(TheReport.navigationStructure) :
        /\ TheReport.navigationStructure[k].menuName = <<"Dashboard">>
        /\ TheReport.navigationStructure[k].routes
             = <<PathDashboard, PathDashboardSlash>>
        /\ TheReport.navigationStructure[k].routeCount = 2

\* The iteration before the one about to start is over: the loop is at
\* its top, and what the iteration had to do for its URL is done (the route
\* pushed, the extract stored and the links enqueued; or the FailedRoute
\* recorded; or, after the delay, the URL pushed again and out of visited).
IterationComplete ==
  /\ pc = "crawling"
  /\ last.op \in {"none", "skip", "visit", "fail", "retry"}
  /\ last.op = "visit" =>
       /\ served # <<>> /\ served[Len(served)].url = last.url
       /\ routes # <<>> /\ routes[Len(routes)] = normalize(last.url)
       /\ served[Len(served)].navOk =>
            MapHas(navigationStructure, normalize(last.url))
       /\ Enqueueable(served[Len(served)].links, visited)
            \subseteq Range(queue)
  /\ last.op = "fail" => last.url \in FailedUrls
  /\ last.op = "retry" =>
       /\ queue # <<>> /\ queue[Len(queue)] = last.url
       /\ last.url \notin visited
       /\ retryAttempts[last.url] >= 1

\* C34: a URL is taken off the queue only when no navigation is pending:
\* the navigation of the URL taken before it, the collection of its links,
\* the extraction, the enqueueing and, after a failure, the delay before
\* the retry are all over.
C34_OneLane ==
  [][ (queue # <<>> /\ queue' = Tail(queue) /\ last'.op \in {"goto", "skip"})
        => IterationComplete ]_vars

\* A URL has been taken off the queue and its navigation is pending, after
\* pages were visited and after the back-off of a failed navigation.
C34_Witness ==
  /\ pc = "navigating"
  /\ last.op = "goto"
  /\ Len(served) > 0
  /\ \E u \in AllUrls : retryAttempts[u] > 0 /\ u \in Range(enqLog)
  /\ fails > 0

\* C35: discoveredRoutes never holds the same normalized path twice,
\* whatever the start URL (with a query string too) and the site's links.
C35_NoDuplicateRoutes ==
  \A i, j \in 1..Len(routes) : routes[i] = routes[j] => i = j

\* C36: in the returned report every count of the summary is the length of
\* the list it counts, as that list is emitted in the same report.
C36_SummaryCountsLists ==
  (Done /\ Len(output) = 1) =>
    /\ TheReport.summary.successful = Len(TheReport.discoveredRoutes)
    /\ TheReport.summary.failed = Len(TheReport.failedRoutes)
    /\ TheReport.summary.skippedLogout = Len(TheReport.skippedLogoutRoutes)

\* The cache file of analyzeRoutes holds a result that analyzeRoutes stored.
AnalysisStored ==
  /\ MapHas(cacheDir, getCacheKey("analyzeRoutes", cacheContent))
  /\ MapGet(cacheDir, getCacheKey("analyzeRoutes", cacheContent)).valid

C38_CrawlOncePerUrlNoLogout ==
  /\ \A i, j \in 1..Len(navigations) :
        navigations[i].url = navigations[j].url => i = j
  /\ routesFile.exists =>
       \A i \in 1..Len(navigations) :
         \A k \in 1..Len(routesFile.skippedLogoutRoutes) :
           toLowerCase(navigations[i].url)
             # toLowerCase(routesFile.skippedLogoutRoutes[k])

\* The call has ended after it met, among the routes of the menus, a URL a
\* second time (once as a path, once in full) and a logout route written
\* in other letters than in the routes file, and navigated to other URLs.
C38_Witness ==
  /\ crawlPc.at = "returned"
  /\ crawlSummary.exists
  /\ Len(navigations) >= 2
  /\ \E i, j \in 1..Len(targets) :
        /\ i # j
        /\ targets[i].targetUrl # targets[j].targetUrl
        /\ targets[i].fullUrl = targets[j].fullUrl
        /\ \E n \in 1..Len(navigations) : navigations[n].url = targets[i].fullUrl
  /\ \E i \in 1..Len(targets) :
        /\ targets[i].fullUrl \notin Range(routesFile.skippedLogoutRoutes)
        /\ toLowerCase(targets[i].fullUrl) \in skippedLogoutSet

====
